---------------------------- MODULE Spec2Model ----------------------------
(***************************************************************************)
(* Conch: the tool-calling subsystem of the chat mode.                     *)
(*                                                                         *)
(*   src/conch/mcp.py   collect_tools, execute_tool (the tool registry)    *)
(*   src/conch/chat.py  _tool_group, _group_tools, _apply_filter,          *)
(*                      _handle_slash_command, _append_results_*,          *)
(*                      _LocalShellClient, _ManageToolsClient, _chat_turn, *)
(*                      chat_loop                                          *)
(*                                                                         *)
(* Strings the code inspects (tool names, client names, group labels, the  *)
(* user's confirmation input) are sequences of one-character strings, so   *)
(* that lower(), strip(), split("_") and sorted() are computed.  Texts the *)
(* code only measures and cuts (tool results) are sequences of segments    *)
(* [src, off, len]: len characters of the string src, from offset off.     *)
(***************************************************************************)
EXTENDS Integers, Sequences, FiniteSets, TLC

(***************************************************************************)
(* Bounds of the model.                                                    *)
(***************************************************************************)
\* reloads (/reload, and the reload after /enable and /disable) per session
MaxReloads == 2
\* a user message is accepted while the history is shorter than this
MaxHistory == 4
\* the same, where a turn that calls tools is followed by another turn
MaxSwitchHistory == 6
\* tools one configured server reports, where the configurations are enumerated
MaxServerTools == 2
\* tool calls in one provider response
MaxCalls == 2
\* rounds per session whose response is drawn from the whole response set; the
\* other rounds carry a plain response (a text, or one call of an external tool)
MaxVaried == 1
\* requests one client sends after its handshake
MaxRequests == 2
\* lines one server writes to its output
MaxLines == 3
\* requests and notifications one HTTP client posts
MaxPosts == 4
\* lines in the body of one HTTP response, and responses whose body is read
MaxBody == 3
MaxFramed == 1
\* saves of the preferences file by the other process, and process starts
MaxSaves == 2
MaxStarts == 2
\* calls of close() on one client
MaxCloses == 2

(***************************************************************************)
(* Program constants.                                                      *)
(***************************************************************************)
MAX_TOOL_ROUNDS == 10
MAX_GROUP == 200
MAX_TOOLS == 300
RESULT_CAP == 8000
LOCAL_CAP == 15000
DEFAULT_TIMEOUT == 60
SEARCH_LIMIT == 20

(***************************************************************************)
(* Characters and strings.                                                 *)
(***************************************************************************)
\* the characters used, in code point order (Python compares by code point);
\* "~" stands for the em dash of " \u2014" (both sort after every letter)
Chars ==
    << " ",
       "0", "1", "2", "3", "4", "5", "6", "7", "8", "9",
       "A", "B", "C", "D", "E", "F", "G", "H", "I", "J", "K", "L", "M",
       "N", "O", "P", "Q", "R", "S", "T", "U", "V", "W", "X", "Y", "Z",
       "[", "_",
       "a", "b", "c", "d", "e", "f", "g", "h", "i", "j", "k", "l", "m",
       "n", "o", "p", "q", "r", "s", "t", "u", "v", "w", "x", "y", "z",
       "~" >>

CharSet == {Chars[i] : i \in 1..Len(Chars)}

Ord == [c \in CharSet |-> CHOOSE i \in 1..Len(Chars) : Chars[i] = c]

\* str.lower() on one character
LowerChar(c) ==
    IF Ord[c] >= Ord["A"] /\ Ord[c] <= Ord["Z"]
    THEN Chars[Ord[c] - Ord["A"] + Ord["a"]]
    ELSE c

\* str.lower()
StrLower(s) == [i \in 1..Len(s) |-> LowerChar(s[i])]

\* str.strip(): leading and trailing whitespace removed
StrStrip(s) ==
    LET inked == {i \in 1..Len(s) : s[i] # " "}
    IN  IF inked = {} THEN <<>>
        ELSE LET lo == CHOOSE i \in inked : \A j \in inked : i <= j
                 hi == CHOOSE i \in inked : \A j \in inked : i >= j
             IN  SubSeq(s, lo, hi)

\* "_" in name
HasSeparator(s) == \E i \in 1..Len(s) : s[i] = "_"

\* name.split("_")[0]
BeforeSeparator(s) ==
    IF HasSeparator(s)
    THEN LET k == CHOOSE i \in 1..Len(s) :
                      s[i] = "_" /\ \A j \in 1..(i - 1) : s[j] # "_"
         IN  SubSeq(s, 1, k - 1)
    ELSE s

\* a < b for Python strings
StrLess(a, b) ==
    \/ /\ Len(a) < Len(b)
       /\ \A i \in 1..Len(a) : a[i] = b[i]
    \/ \E k \in 1..Len(a) :
          /\ k <= Len(b)
          /\ \A i \in 1..(k - 1) : a[i] = b[i]
          /\ Ord[a[k]] < Ord[b[k]]

\* the strings of a set in falling order
RECURSIVE SortedFalling(_)
SortedFalling(S) ==
    IF S = {} THEN <<>>
    ELSE LET m == CHOOSE x \in S : \A y \in S : x = y \/ StrLess(y, x)
         IN  <<m>> \o SortedFalling(S \ {m})

\* sorted(S) for a set of strings
RECURSIVE SortedList(_)
SortedList(S) ==
    IF S = {} THEN <<>>
    ELSE LET m == CHOOSE x \in S : \A y \in S : x = y \/ StrLess(x, y)
         IN  <<m>> \o SortedList(S \ {m})

\* str(n) for n >= 0
RECURSIVE Digits(_)
Digits(n) ==
    IF n < 10 THEN <<Chars[Ord["0"] + n]>>
    ELSE Digits(n \div 10) \o <<Chars[Ord["0"] + (n % 10)]>>

Range(s) == {s[i] : i \in 1..Len(s)}

\* dict.get(k, default)
Get(d, k, default) == IF k \in DOMAIN d THEN d[k] ELSE default


(***************************************************************************)
(* Names.                                                                  *)
(***************************************************************************)
LOCAL_SHELL == <<"l", "o", "c", "a", "l", "_", "s", "h", "e", "l", "l">>
MANAGE_TOOLS == <<"m", "a", "n", "a", "g", "e", "_", "t", "o", "o", "l", "s">>
UNKNOWN == <<"u", "n", "k", "n", "o", "w", "n">>
COMPOSIO == <<"c", "o", "m", "p", "o", "s", "i", "o">>
\* a second configured server, and tools that servers report
FS == <<"f", "s">>
READ == <<"r", "e", "a", "d">>
GH_PR == <<"G", "H", "_", "p", "r">>
GM_SEND == <<"G", "M", "_", "s", "e", "n", "d">>
\* a name no server reports
NOPE == <<"n", "o", "p", "e">>

\* the pseudo-clients (module-level singletons)
_local_shell_client == [name |-> LOCAL_SHELL, idx |-> 0, gen |-> 0]
_manage_tools_client == [name |-> MANAGE_TOOLS, idx |-> 0, gen |-> 0]

\* the descriptors of the two built-in tools
LOCAL_SHELL_TOOL == [name |-> LOCAL_SHELL, description |-> LOCAL_SHELL]
MANAGE_TOOLS_TOOL == [name |-> MANAGE_TOOLS, description |-> MANAGE_TOOLS]

(***************************************************************************)
(* The tool registry: mcp.collect_tools and the injection of the built-in  *)
(* tools.  A server configuration cfg is the list of configured servers,   *)
(* each [name, tools]: the descriptors its list_tools() returns.  A server *)
(* may carry a fault: "construct" (the constructor of its client raises:   *)
(* the process cannot be started, the pipe breaks in the handshake, the    *)
(* entry lacks its command), "list" (list_tools raises: the pipe is        *)
(* broken, the result is no object) or "error" (the request yields an      *)
(* error value: the server closed its output, the connection failed, the   *)
(* body is no JSON).  An item of a tool list may be no object (nondict).   *)
(***************************************************************************)
Fault(sc) == IF "fault" \in DOMAIN sc THEN sc.fault ELSE "none"

\* create_clients: one client object per configured server whose constructor
\* returns, in order; idx is the position of the server in mcp.json
create_clients(cfg, g) ==
    SelectSeq([i \in 1..Len(cfg) |-> [name |-> cfg[i].name, idx |-> i, gen |-> g]],
              LAMBDA c : Fault(cfg[c.idx]) # "construct")

\* client.list_tools(), when it returns
list_tools(cfg, client) ==
    IF Fault(cfg[client.idx]) = "error" THEN <<>> ELSE cfg[client.idx].tools

\* an item of a tool list that is an object
IsDict(t) == "nondict" \notin DOMAIN t

\* the items the inner loop of collect_tools visits before the exception
\* that ends the loop, if there is one: list_tools raises, or t.get does on
\* the first item that is no object
\* the items of a list before its first item that is no object
UpToNonDict(ts) ==
    SubSeq(ts, 1, (CHOOSE k \in 1..(Len(ts) + 1) :
                      /\ k <= Len(ts) => ~IsDict(ts[k])
                      /\ \A j \in 1..(k - 1) : IsDict(ts[j])) - 1)

Visited(cfg, client) ==
    IF Fault(cfg[client.idx]) = "list" THEN <<>>
    ELSE UpToNonDict(list_tools(cfg, client))

\* the (tool, client) pairs in the order the two loops of collect_tools
\* visit them
RECURSIVE VisitOrder(_, _, _)
VisitOrder(clients, cfg, i) ==
    IF i > Len(clients) THEN <<>>
    ELSE LET ts == Visited(cfg, clients[i])
         IN  [k \in 1..Len(ts) |-> [t |-> ts[k], client |-> clients[i]]]
             \o VisitOrder(clients, cfg, i + 1)

\* tool_map[name] = client : the entry is written, whether or not it exists
MapAssign(tool_map, name, client) == (name :> client) @@ tool_map

\* tool_map after the assignments of all visits, made in order into an empty
\* map: a name's entry is the client of the last visit that carries the name
AssignAll(visits) ==
    LET name_at == [k \in 1..Len(visits) |-> Get(visits[k].t, "name", <<>>)]
    IN  [n \in Range(name_at) |->
            LET at == {k \in 1..Len(visits) : name_at[k] = n}
            IN  visits[CHOOSE k \in at : \A j \in at : j <= k].client]

\* openai_tools.append(...): one descriptor per visit, in order
AppendAll(visits) ==
    [k \in 1..Len(visits) |->
        [name |-> Get(visits[k].t, "name", <<>>),
         description |-> Get(visits[k].t, "description", <<>>)]]

collect_tools(clients, cfg) ==
    LET visits == VisitOrder(clients, cfg, 1)
    IN  [openai_tools |-> AppendAll(visits),
         tool_map |-> AssignAll(visits)]

\* chat_loop: "Inject built-in tools"
InjectBuiltins(reg) ==
    [all_tools |-> reg.openai_tools \o <<LOCAL_SHELL_TOOL, MANAGE_TOOLS_TOOL>>,
     tool_map |-> MapAssign(MapAssign(reg.tool_map, LOCAL_SHELL, _local_shell_client),
                            MANAGE_TOOLS, _manage_tools_client)]

\* the registry of a session: clients created, tools collected, built-ins added
\* what chat_loop keeps of a build
RegistryOf(clients, reg) ==
    [mcp_clients |-> clients, all_tools |-> reg.all_tools, tool_map |-> reg.tool_map]

\* chat_loop: collect_tools(mcp_clients), then the built-in tools
RegistryWith(clients, cfg) ==
    RegistryOf(clients, InjectBuiltins(collect_tools(clients, cfg)))

BuildRegistry(cfg, g) == RegistryWith(create_clients(cfg, g), cfg)

\* close_all with the first client alone
close_first(clients) ==
    [i \in 1..(IF clients = <<>> THEN 0 ELSE 1) |-> [op |-> "close", client |-> clients[i]]]

\* mcp.close_all, lines 312-318: close() is called on every client, in order;
\* an exception of a close is swallowed and the loop goes on
close_all(clients) ==
    [i \in 1..Len(clients) |-> [op |-> "close", client |-> clients[i]]]

\* the constructors create_clients has run to their return, in order
Created(clients) ==
    [i \in 1..Len(clients) |-> [op |-> "create", client |-> clients[i]]]

ToolNames(ts) == [i \in 1..Len(ts) |-> ts[i].name]

(***************************************************************************)
(* Groups and filtering: _tool_group, _group_tools, _apply_filter.         *)
(***************************************************************************)
\* the prefix as the server spells it
_tool_group_verbatim(name, tool_map) ==
    IF name \in {LOCAL_SHELL, MANAGE_TOOLS} THEN name
    ELSE LET client_name == IF name \in DOMAIN tool_map THEN tool_map[name].name
                            ELSE UNKNOWN
         IN  IF client_name = COMPOSIO /\ HasSeparator(name)
             THEN BeforeSeparator(name)
             ELSE client_name

_tool_group(name, tool_map) ==
    IF name \in {LOCAL_SHELL, MANAGE_TOOLS} THEN name
    ELSE LET client_name == IF name \in DOMAIN tool_map THEN tool_map[name].name
                            ELSE UNKNOWN
         IN  IF client_name = COMPOSIO /\ HasSeparator(name)
             THEN StrLower(BeforeSeparator(name))
             ELSE client_name

\* groups: label -> the names of its tools, in registry order
_group_tools(all_tools, tool_map) ==
    LET names == ToolNames(all_tools)
        grp == [n \in Range(names) |-> _tool_group(n, tool_map)]
    IN  [g \in {grp[n] : n \in Range(names)} |->
            SelectSeq(names, LAMBDA n : grp[n] = g)]

\* the test without the override set
KeptIgnoringPicked(name, grp, disabled, picked) == grp \notin disabled

\* the test of the loop: the tool is kept
Kept(name, grp, disabled, picked) == grp \notin disabled \/ name \in picked

_apply_filter(all_tools, tool_map, prefs) ==
    LET disabled == Range(Get(prefs, "disabled_groups", <<>>))
        picked == Range(Get(prefs, "picked_tools", <<>>))
        grp == [n \in Range(ToolNames(all_tools)) |-> _tool_group(n, tool_map)]
    IN  IF disabled = {} THEN all_tools
        ELSE SelectSeq(all_tools,
                       LAMBDA t : Kept(t.name, grp[t.name], disabled, picked))


(***************************************************************************)
(* Texts: sequences of segments, no segment empty.                         *)
(***************************************************************************)
Seg(src, n) == IF n = 0 THEN <<>> ELSE <<[src |-> src, off |-> 0, len |-> n]>>

\* the string a segment is cut from: what it is, and the string and the number
\* it was formatted with
Src(what, str, num) == <<what, str, num>>

\* len(text)
RECURSIVE TextLen(_)
TextLen(t) == IF t = <<>> THEN 0 ELSE Head(t).len + TextLen(Tail(t))

\* text[:k]
RECURSIVE TextTake(_, _)
TextTake(t, k) ==
    IF t = <<>> \/ k <= 0 THEN <<>>
    ELSE IF Head(t).len <= k
         THEN <<Head(t)>> \o TextTake(Tail(t), k - Head(t).len)
         ELSE <<[Head(t) EXCEPT !.len = k]>>

\* text[k:]
RECURSIVE TextDrop(_, _)
TextDrop(t, k) ==
    IF t = <<>> THEN <<>>
    ELSE IF k <= 0 THEN t
    ELSE IF Head(t).len <= k THEN TextDrop(Tail(t), k - Head(t).len)
    ELSE <<[Head(t) EXCEPT !.off = @ + k, !.len = @ - k]>> \o Tail(t)

\* a string literal of the source, n characters long
Lit(id, n) == Seg(Src(id, <<>>, 0), n)

RESULT_MARKER == Lit("truncated_result_too_large", 35)
LOCAL_MARKER == Lit("truncated", 16)
SENTINEL == Lit("max_tool_call_rounds_reached", 30)
DECLINED == Lit("user_declined", 37)
EMPTY_COMMAND == Lit("empty_command", 20)
STDERR_RULE == Lit("stderr_rule", 16)

\* sum of the lengths of the strings of a sequence
RECURSIVE SumLen(_)
SumLen(ss) == IF ss = <<>> THEN 0 ELSE Len(Head(ss)) + SumLen(Tail(ss))

(***************************************************************************)
(* _chat_turn, lines 885-888: the cap on one tool result.                  *)
(***************************************************************************)
\* the cap with the marker counted inside the ceiling
CapResultInclusive(result_text) ==
    IF TextLen(result_text) > RESULT_CAP
    THEN TextTake(result_text, RESULT_CAP - TextLen(RESULT_MARKER)) \o RESULT_MARKER
    ELSE result_text

CapResult(result_text) ==
    IF TextLen(result_text) > RESULT_CAP
    THEN TextTake(result_text, RESULT_CAP) \o RESULT_MARKER
    ELSE result_text

(***************************************************************************)
(* _chat_turn, lines 870-875: the arguments of a tool call.  A payload is  *)
(* the string the provider sent: kind "object" (JSON of an object, val),   *)
(* "nonobject" (JSON of a list, a number, null) or "invalid" (no JSON).    *)
(***************************************************************************)
ParseArguments(payload) ==
    IF payload.kind = "object" THEN [kind |-> "dict", val |-> payload.val]
    ELSE IF payload.kind = "invalid" THEN [kind |-> "dict", val |-> <<>>]
    ELSE [kind |-> "other", val |-> <<>>]

(***************************************************************************)
(* _LocalShellClient.call_tool.  answer_in is what input() yields: a line  *)
(* [kind "line", text], or kind "eof" or "interrupt".  outcome is what     *)
(* subprocess.run does once started.  The result: raised (an exception     *)
(* leaves call_tool), prompted, started (a process was started), text.     *)
(***************************************************************************)
\* a looser test: any answer that begins with y
IsYesPrefix(answer) == Len(answer) > 0 /\ answer[1] = "y"

\* answer not in ("y", "yes") is false
IsYes(answer) == answer \in {<<"y">>, <<"y", "e", "s">>}

\* the output without the exit code
ShellOutputBare(cmd, outcome) ==
    LET stdout == Seg(Src("stdout", cmd, 0), outcome.stdout)
        stderr == Seg(Src("stderr", cmd, 0), outcome.stderr)
        o2 == IF stderr # <<>>
              THEN (IF stdout # <<>> THEN stdout \o STDERR_RULE \o stderr ELSE stderr)
              ELSE stdout
        o3 == IF o2 = <<>>
              THEN Seg(Src("no_output", <<>>, outcome.rc), 23 + Len(Digits(outcome.rc)))
              ELSE o2
    IN  IF TextLen(o3) > LOCAL_CAP
        THEN TextTake(o3, LOCAL_CAP) \o LOCAL_MARKER
        ELSE o3

\* the output of a finished process, lines 656-667
ShellOutput(cmd, outcome) ==
    LET stdout == Seg(Src("stdout", cmd, 0), outcome.stdout)
        stderr == Seg(Src("stderr", cmd, 0), outcome.stderr)
        o1 == stdout
        o2 == IF stderr # <<>>
              THEN (IF o1 # <<>> THEN o1 \o STDERR_RULE \o stderr ELSE stderr)
              ELSE o1
        o3 == IF o2 = <<>>
              THEN Seg(Src("no_output", <<>>, outcome.rc), 23 + Len(Digits(outcome.rc)))
              ELSE IF outcome.rc # 0
                   THEN o2 \o Seg(Src("exit_code", <<>>, outcome.rc),
                                  13 + Len(Digits(outcome.rc)))
                   ELSE o2
    IN  IF TextLen(o3) > LOCAL_CAP
        THEN TextTake(o3, LOCAL_CAP) \o LOCAL_MARKER
        ELSE o3

LocalShellCall(arguments, answer_in, outcome) ==
    IF arguments.kind # "dict"
    THEN [raised |-> TRUE, prompted |-> FALSE, started |-> FALSE, text |-> <<>>]
    ELSE LET cmd == Get(arguments.val, "command", <<>>)
             timeout == Get(arguments.val, "timeout", DEFAULT_TIMEOUT)
             answer == IF answer_in.kind = "line"
                       THEN StrLower(StrStrip(answer_in.text))
                       ELSE <<>>
         IN  IF cmd = <<>>
             THEN [raised |-> FALSE, prompted |-> FALSE, started |-> FALSE,
                   text |-> EMPTY_COMMAND]
             ELSE IF ~IsYes(answer)
             THEN [raised |-> FALSE, prompted |-> TRUE, started |-> FALSE,
                   text |-> DECLINED]
             ELSE [raised |-> FALSE, prompted |-> TRUE, started |-> TRUE,
                   text |-> IF outcome.kind = "done" THEN ShellOutput(cmd, outcome)
                            ELSE IF outcome.kind = "timeout"
                            THEN Seg(Src("timed_out", <<>>, timeout),
                                     25 + Len(Digits(timeout)))
                            ELSE Seg(Src("error", cmd, 0), 7 + outcome.elen)]

(***************************************************************************)
(* mcp.execute_tool.  outcome is what client.call_tool does: kind "text"   *)
(* (a result whose text is n characters long), "error" (an error value of  *)
(* the server or the transport, dumped as n characters of JSON) or         *)
(* "raise".  The result: the client called (none for an unknown name) and  *)
(* the text returned.                                                      *)
(***************************************************************************)
NoClient == [name |-> <<>>, idx |-> -1, gen |-> -1]

execute_tool(tmap, name, arguments, outcome) ==
    IF name \notin DOMAIN tmap
    THEN [client |-> NoClient,
          text |-> Seg(Src("unknown_tool", name, 0), 22 + Len(name))]
    ELSE [client |-> tmap[name],
          text |-> IF outcome.kind = "text"
                   THEN Seg(Src("tool", name, tmap[name].idx), outcome.n)
                   ELSE IF outcome.kind = "error"
                   THEN Seg(Src("error_value", name, tmap[name].idx), outcome.n)
                   ELSE Seg(Src("error_executing", name, 0),
                            20 + Len(name) + outcome.elen)]


(***************************************************************************)
(* The preferences file: _load_tool_prefs, _save_tool_prefs.  The file is  *)
(* [exists, data, upto]; data is the JSON object, a function of its keys,   *)
(* and upto tells how much of its text the file holds: "all", or, while    *)
(* a save is under way, "none" or "part".                                  *)
(***************************************************************************)
NoFile == [exists |-> FALSE, data |-> <<>>, upto |-> "all"]

\* a file that does not exist or holds no complete JSON text gives {}
_load_tool_prefs(file) ==
    IF file.exists /\ file.upto = "all" THEN file.data ELSE <<>>

\* the file once _save_tool_prefs has returned
_save_tool_prefs(prefs) == [exists |-> TRUE, data |-> prefs, upto |-> "all"]

\* a dictionary of the one key k
SetKeyAlone(prefs, k, v) == k :> v

\* prefs[k] = v
SetKey(prefs, k, v) == (k :> v) @@ prefs

DisabledOf(prefs) == Range(Get(prefs, "disabled_groups", <<>>))

PickedOf(prefs) == Range(Get(prefs, "picked_tools", <<>>))

(***************************************************************************)
(* _ManageToolsClient.call_tool: the actions list, enable, disable, search  *)
(* and enable_tools, and an unknown action.  The result: raised, the text, the *)
(* file afterwards, refreshed (s["tools"] was set to tools and the refresh *)
(* flag raised), tools and prefs (the preferences the action ended with).  *)
(***************************************************************************)
\* the part of s before the first occurrence of pat: s.split(pat)[0]
SplitHead(s, pat) ==
    LET hits == {i \in 1..(Len(s) - Len(pat) + 1) : SubSeq(s, i, i + Len(pat) - 1) = pat}
    IN  IF hits = {} THEN s
        ELSE SubSeq(s, 1, (CHOOSE i \in hits : \A j \in hits : i <= j) - 1)

\* tn.split(" —")[0].split(" [")[0].strip()
CleanName(tn) == StrStrip(SplitHead(SplitHead(tn, <<" ", "~">>), <<" ", "[">>))

\* every name of the list added as it was cleaned, registered or not
AddedNamesUnchecked(tool_names, valid) ==
    [i \in 1..Len(tool_names) |-> CleanName(tool_names[i])]

\* the names the loop of enable_tools adds, in order
RECURSIVE AddedNames(_, _)
AddedNames(tool_names, valid) ==
    IF tool_names = <<>> THEN <<>>
    ELSE LET clean == CleanName(Head(tool_names))
             same == {n \in valid : StrLower(n) = StrLower(clean)}
         IN  (IF clean \in valid THEN <<clean>>
              ELSE IF same # {} THEN <<CHOOSE n \in same : TRUE>>
              ELSE <<>>)
             \o AddedNames(Tail(tool_names), valid)

\* "Tool groups:" and one line per group
RECURSIVE GroupLinesLen(_, _, _)
GroupLinesLen(labels, groups, disabled) ==
    IF labels = <<>> THEN 0
    ELSE LET g == Head(labels)
         IN  (IF g \in disabled THEN 18 ELSE 17) + Len(g)
             + Len(Digits(Len(groups[g])))
             + GroupLinesLen(Tail(labels), groups, disabled)

(***************************************************************************)
(* _ManageToolsClient.call_tool, lines 784-815: the action search.  A      *)
(* score is kept as score * len(keywords), which is a whole number: the    *)
(* code divides every score of one call by the same len(keywords).         *)
(***************************************************************************)
\* query.split(): the words between runs of blanks
RECURSIVE Words(_)
Words(s) ==
    LET blanks == {i \in 1..Len(s) : s[i] = " "}
        first == IF blanks = {} THEN Len(s) + 1
                 ELSE CHOOSE i \in blanks : \A j \in blanks : i <= j
    IN  IF s = <<>> THEN <<>>
        ELSE IF first = 1 THEN Words(Tail(s))
        ELSE <<SubSeq(s, 1, first - 1)>> \o Words(SubSeq(s, first + 1, Len(s)))

\* kw in s
Contains(s, kw) == \E i \in 1..(Len(s) - Len(kw) + 1) : SubSeq(s, i, i + Len(kw) - 1) = kw

\* the hits of a name count single and those of a description double
SearchScoreSwapped(name_hits, desc_hits, n, off) ==
    name_hits + desc_hits * 2 + (IF off THEN n ELSE 0)

\* (name_hits * 2 + desc_hits) / n, plus 1.0 for a disabled group; times n
SearchScore(name_hits, desc_hits, n, off) ==
    name_hits * 2 + desc_hits + (IF off THEN n ELSE 0)

\* the list scored, in registry order: the tools with a hit
Scored(keywords, atools, tmap, disabled) ==
    LET n == Len(keywords)
        entry(t) ==
            LET in_name == {k \in 1..n : Contains(StrLower(t.name), keywords[k])}
                in_desc == {k \in 1..n : Contains(StrLower(t.description), keywords[k])}
                off == _tool_group(t.name, tmap) \in disabled
            IN  [name |-> t.name, in_name |-> in_name, in_desc |-> in_desc, off |-> off,
                 score |-> SearchScore(Cardinality(in_name), Cardinality(in_desc), n, off),
                 desc |-> SubSeq(t.description, 1,
                                 IF Len(t.description) > 80 THEN 80
                                 ELSE Len(t.description))]
    IN  SelectSeq([i \in 1..Len(atools) |-> entry(atools[i])],
                  LAMBDA e : e.in_name # {} \/ e.in_desc # {})

\* scored.sort(key=score, reverse=True): by falling score, equal scores in
\* the order they had
SortByScore(scored) ==
    LET before(i) == {j \in 1..Len(scored) :
                         \/ scored[j].score > scored[i].score
                         \/ scored[j].score = scored[i].score /\ j < i}
    IN  [r \in 1..Len(scored) |->
            scored[CHOOSE i \in 1..Len(scored) : Cardinality(before(i)) = r - 1]]

\* the result of the action: the text and, for the record, the scored list
\* and matches = scored[:20]
Search(args, atools, tmap, disabled) ==
    LET query == StrLower(Get(args, "query", <<>>))
        keywords == Words(query)
        scored == Scored(keywords, atools, tmap, disabled)
        sorted == SortByScore(scored)
        matches == SubSeq(sorted, 1, IF Len(sorted) > SEARCH_LIMIT THEN SEARCH_LIMIT
                                     ELSE Len(sorted))
    IN  [query |-> query, n |-> Len(keywords), scored |-> scored, matches |-> matches,
         text |-> IF query = <<>> THEN Lit("specify_a_search_query", 29)
                  ELSE IF matches = <<>>
                  THEN Seg(Src("no_tools_found", query, 0), 49 + Len(query))
                  ELSE Seg(Src("found", query, Len(matches)),
                           25 + Len(Digits(Len(matches))) + Len(query)
                           + 5 * Len(matches)
                           + SumLen([i \in 1..Len(matches) |-> matches[i].name])
                           + SumLen([i \in 1..Len(matches) |-> matches[i].desc])
                           + 56 + Len(matches) + 1)]

\* an answer that also empties the shared tools and sets the refresh flag
ManageCleared(file, text) ==
    [raised |-> FALSE, text |-> text, file |-> file, refreshed |-> TRUE,
     tools |-> <<>>, prefs |-> _load_tool_prefs(file)]

\* an answer that changes nothing: no save, s["tools"] and the flag as they were
ManageUnchanged(file, text) ==
    [raised |-> FALSE, text |-> text, file |-> file, refreshed |-> FALSE,
     tools |-> <<>>, prefs |-> _load_tool_prefs(file)]

ManageToolsCall(arguments, atools, tmap, file) ==
    IF arguments.kind # "dict"
    THEN [raised |-> TRUE, text |-> <<>>, file |-> file, refreshed |-> FALSE,
          tools |-> <<>>, prefs |-> _load_tool_prefs(file)]
    ELSE
    LET args == arguments.val
        action == Get(args, "action", "list")
        group == StrLower(Get(args, "group", <<>>))
        groups == _group_tools(atools, tmap)
        prefs == _load_tool_prefs(file)
        disabled == DisabledOf(prefs)
        count == IF group \in DOMAIN groups THEN Len(groups[group]) ELSE 0
    IN  IF action = "list"
        THEN ManageUnchanged(file,
                 Seg(Src("tool_groups", <<>>, 0),
                     12 + GroupLinesLen(SortedList(DOMAIN groups), groups, disabled)))
        ELSE IF action \in {"enable", "disable"}
        THEN IF group = <<>>
             THEN ManageUnchanged(file, Lit("specify_a_group_name", 27))
             ELSE LET d2 == IF action = "enable" THEN disabled \ {group}
                            ELSE disabled \cup {group}
                      p2 == SetKey(prefs, "disabled_groups", SortedList(d2))
                      ts == _apply_filter(atools, tmap, p2)
                  IN  [raised |-> FALSE,
                       text |-> Seg(Src(action, group, Len(ts)),
                                    (IF action = "enable" THEN 37 ELSE 46)
                                    + Len(group) + Len(Digits(count))
                                    + Len(Digits(Len(ts)))),
                       file |-> _save_tool_prefs(p2), refreshed |-> TRUE,
                       tools |-> ts, prefs |-> p2]
        ELSE IF action = "enable_tools"
        THEN LET tool_names == Get(args, "tools", <<>>)
                 valid == Range(ToolNames(atools))
                 added == AddedNames(tool_names, valid)
                 picked == PickedOf(prefs) \cup Range(added)
                 p2 == SetKey(prefs, "picked_tools", SortedList(picked))
                 ts == _apply_filter(atools, tmap, p2)
             IN  IF tool_names = <<>>
                 THEN ManageUnchanged(file, Lit("specify_tool_names", 25))
                 ELSE [raised |-> FALSE,
                       text |-> Seg(Src("loaded", <<>>, Len(ts)),
                                    35 + Len(Digits(Len(added))) + SumLen(added)
                                    + (IF added = <<>> THEN 0 ELSE 2 * (Len(added) - 1))
                                    + Len(Digits(Len(ts)))),
                       file |-> _save_tool_prefs(p2), refreshed |-> TRUE,
                       tools |-> ts, prefs |-> p2]
        ELSE IF action = "search"
        THEN ManageUnchanged(file, Search(args, atools, tmap, disabled).text)
        ELSE ManageUnchanged(file, Seg(Src("unknown_action", <<>>, 0), 16 + 5))


(***************************************************************************)
(* chat_loop, lines 920-955: startup.                                      *)
(***************************************************************************)
\* the groups the startup loop adds to the disabled set
AutoDisabled(groups, disabled) ==
    {g \in DOMAIN groups : g \notin disabled /\ Len(groups[g]) > MAX_GROUP}

\* the whole list, however long
TruncateNever(ts) == ts

\* tools[:MAX_TOOLS] when there are more
Truncate(ts) == IF Len(ts) > MAX_TOOLS THEN SubSeq(ts, 1, MAX_TOOLS) ELSE ts

\* lines 947-949: the filter's result, and the ceiling on what it leaves
StartupTools(reg, file, prefs2, filtered) ==
    [reg |-> reg, file |-> file, prefs |-> prefs2, filtered |-> filtered,
     tools |-> Truncate(filtered)]

\* lines 941-947: the preferences are saved when a group was added
StartupSaved(reg, file, added, prefs2) ==
    StartupTools(reg,
                 IF added THEN _save_tool_prefs(prefs2) ELSE file,
                 prefs2,
                 _apply_filter(reg.all_tools, reg.tool_map, prefs2))

\* lines 935-942: the groups over MAX_GROUP join the disabled ones
StartupAuto(reg, file, tool_prefs, disabled, auto) ==
    StartupSaved(reg, file, auto # {},
                 IF auto # {}
                 THEN SetKey(tool_prefs, "disabled_groups", SortedList(disabled \cup auto))
                 ELSE tool_prefs)

\* lines 933-934: the groups of the registry, the groups disabled
StartupGroups(reg, file, tool_prefs) ==
    StartupAuto(reg, file, tool_prefs, DisabledOf(tool_prefs),
                AutoDisabled(_group_tools(reg.all_tools, reg.tool_map),
                             DisabledOf(tool_prefs)))

\* lines 920-930: the registry is built and the preferences loaded
Startup(cfg, file) == StartupGroups(BuildRegistry(cfg, 0), file, _load_tool_prefs(file))

(***************************************************************************)
(* The provider adapters, as far as the turn reads their result: the       *)
(* canonical response built from what the provider sent (wire: a text and  *)
(* the tool calls, each a name and an argument payload).                   *)
(***************************************************************************)
ToolCallId(p, i) ==
    IF p = "ollama" THEN Src("ollama", <<>>, i - 1)
    ELSE IF p = "anthropic" THEN Src("toolu", <<>>, i)
    ELSE Src("call", <<>>, i)

raw_fn(p, wire) ==
    LET tool_calls ==
            [i \in 1..Len(wire.calls) |->
                [id |-> ToolCallId(p, i),
                 function |-> [name |-> wire.calls[i].name,
                               arguments |-> wire.calls[i].arguments]]]
        canonical == [role |-> "assistant", content |-> wire.text,
                      tool_calls |-> tool_calls]
        blocks ==
            (IF wire.text # <<>> THEN <<[type |-> "text", text |-> wire.text]>>
             ELSE <<>>)
            \o [i \in 1..Len(wire.calls) |->
                   [type |-> "tool_use", id |-> ToolCallId(p, i),
                    name |-> wire.calls[i].name,
                    input |-> wire.calls[i].arguments]]
    IN  IF p = "anthropic"
        THEN ("_anthropic_content" :> blocks) @@ canonical
        ELSE canonical

(***************************************************************************)
(* _append_results_openai, _append_results_anthropic: the messages added.  *)
(***************************************************************************)
\* response.get("content") or None
NoContent == <<[none |-> TRUE]>>

\* the assistant message alone, the results left out
_append_assistant_only(msgs, resp, res) ==
    Append(msgs, [role |-> "assistant",
                  content |-> IF resp.content # <<>> THEN resp.content ELSE NoContent,
                  tool_calls |-> resp.tool_calls])

_append_results_openai(msgs, resp, res) ==
    msgs
    \o << [role |-> "assistant",
           content |-> IF resp.content # <<>> THEN resp.content ELSE NoContent,
           tool_calls |-> resp.tool_calls] >>
    \o [i \in 1..Len(res) |->
           [role |-> "tool", tool_call_id |-> res[i].id, content |-> res[i].content]]

_append_results_anthropic(msgs, resp, res) ==
    msgs
    \o << [role |-> "assistant",
           content |-> Get(resp, "_anthropic_content",
                           <<[type |-> "text", text |-> resp.content]>>)] >>
    \o << [role |-> "user",
           content |-> [i \in 1..Len(res) |->
                           [type |-> "tool_result", tool_use_id |-> res[i].id,
                            content |-> res[i].content]]] >>

\* the result shapes exchanged: every provider gets the other one's
AppendSwapped(msgs, resp, res, p) ==
    IF p = "anthropic" THEN _append_results_openai(msgs, resp, res)
    ELSE _append_results_anthropic(msgs, resp, res)

\* the last result of the round left out
AppendAllButLast(msgs, resp, res, p) ==
    IF p = "anthropic" THEN _append_results_anthropic(msgs, resp, SubSeq(res, 1, Len(res) - 1))
    ELSE _append_results_openai(msgs, resp, SubSeq(res, 1, Len(res) - 1))

\* lines 890-893 of _chat_turn
AppendByProvider(msgs, resp, res, p) ==
    IF p = "anthropic" THEN _append_results_anthropic(msgs, resp, res)
    ELSE _append_results_openai(msgs, resp, res)


(***************************************************************************)
(* mcp.StdioMCPClient, lines 44-111, with its server.  stdio is            *)
(*   phase     "spawned": Popen has returned; "ready": the constructor has *)
(*             returned; "failed": the constructor has raised, and         *)
(*             create_clients has caught it and appended no client         *)
(*   id        _id                                                         *)
(*   call      the _send in progress: its method and request_id            *)
(*   lock      a lock held for the call: the class has none                *)
(*   pipe      the lines the server has written and the client not read    *)
(*   eof       the server has closed its output                            *)
(*   exited    the server has exited: a write to its input raises          *)
(*   emitted   the lines written so far: a line's serial number            *)
(*   written   the requests written, reads the lines read (with the id     *)
(*             awaited and whether the loop went on), outcomes how each    *)
(*             _send ended: "response" (line returned), "error" (the       *)
(*             closed-connection error returned) or "raised"               *)
(* A line is [serial, kind, id, body]: kind "object" (a JSON object; id 0  *)
(* stands for no id, request ids being 1, 2, ...), "nonobject" (JSON, but  *)
(* no object: a list, a number, null), "invalid" (no JSON) or "blank".     *)
(***************************************************************************)
NoCall == [method |-> "none", id |-> 0]

NoLine == [serial |-> 0, kind |-> "none", id |-> 0, body |-> "none"]

\* close() of a client: how often it was called, and how many requests had
\* been sent and how many calls had ended when it was called first
NotClosed == [n |-> 0, sent |-> 0, ended |-> 0]

StdioSpawned ==
    [phase |-> "spawned", id |-> 0, call |-> NoCall, lock |-> "none", pipe |-> <<>>,
     eof |-> FALSE, exited |-> FALSE, emitted |-> 0, written |-> <<>>, reads |-> <<>>,
     outcomes |-> <<>>, closed |-> NotClosed, notified |-> <<>>]

\* what a server may write when the client has numbered id requests: a
\* notification, replies to the last request, to the one before and to one
\* not made yet, an error reply, and lines that are no JSON object
ServerLines(id) ==
    {[kind |-> "object", id |-> i, body |-> "result"] : i \in {0} \cup ((id - 1)..(id + 1) \ {0})}
    \cup {[kind |-> "object", id |-> id, body |-> "error"]}
    \cup {[kind |-> k, id |-> 0, body |-> "none"] : k \in {"nonobject", "invalid", "blank"}}

\* a _send ends.  In __init__ (lines 59 and 94-101) an exception leaves the
\* constructor; otherwise what _send returned is ignored and _notify writes
\* to the server's input, which raises when the server has exited.
\* notified holds the notifications written: the method, the id (0: none),
\* and how many requests had been written and how many calls had ended then.
Notification(st) ==
    [method |-> "notifications/initialized", id |-> 0, sent |-> Len(st.written),
     ended |-> Len(st.outcomes) + 1]

\* a constructor that goes on to list_tools without the notification
EndedUnannounced(st, kind, line) ==
    [st EXCEPT
        !.call = NoCall,
        !.outcomes = Append(@, [id |-> st.call.id, method |-> st.call.method,
                                kind |-> kind, line |-> line]),
        !.phase = IF st.call.method # "initialize" THEN @
                  ELSE IF kind = "raised" \/ st.exited THEN "failed"
                  ELSE "ready"]

Ended(st, kind, line) ==
    [st EXCEPT
        !.call = NoCall,
        !.outcomes = Append(@, [id |-> st.call.id, method |-> st.call.method,
                                kind |-> kind, line |-> line]),
        !.phase = IF st.call.method # "initialize" THEN @
                  ELSE IF kind = "raised" \/ st.exited THEN "failed"
                  ELSE "ready",
        !.notified = IF st.call.method = "initialize" /\ kind # "raised" /\ ~st.exited
                     THEN Append(@, Notification(st))
                     ELSE @]

\* a request may be written whatever call is in progress
MaySendAnyway(st) == TRUE

\* a caller is in _send until it returns or raises: the next request of the
\* thread that calls the client is written after that
MaySend(st) == st.call = NoCall

\* _send, lines 73-78: the id is taken, the request written and flushed; the
\* write raises when the server has exited or when close() has closed stdin
Written(st, method) ==
    LET request_id == st.id + 1
        now == [st EXCEPT !.id = request_id,
                          !.call = [method |-> method, id |-> request_id]]
    IN  IF st.exited \/ st.closed.n > 0 THEN Ended(now, "raised", NoLine)
        ELSE [now EXCEPT !.written = Append(@, [id |-> request_id, method |-> method])]

\* StdioMCPClient.close, lines 113-122: stdin is closed and the process
\* terminated (killed, should that raise); on a client already closed
\* neither does anything
StdioClosed(st) ==
    [st EXCEPT !.closed = [n |-> @.n + 1,
                           sent |-> IF @.n = 0 THEN Len(st.written) ELSE @.sent,
                           ended |-> IF @.n = 0 THEN Len(st.outcomes) ELSE @.ended],
               !.eof = TRUE,
               !.exited = TRUE]

\* _send, lines 80-92: one pass of the loop with a line read
ReadOne(st) ==
    LET line == Head(st.pipe)
        rest == [st EXCEPT !.pipe = Tail(@)]
        goes_on == \/ line.kind \in {"blank", "invalid"}
                   \/ line.kind = "object" /\ line.id # st.call.id
        noted == [rest EXCEPT !.reads = Append(@, [line |-> line, want |-> st.call.id,
                                                   goes_on |-> goes_on])]
    IN  IF goes_on THEN noted
        ELSE IF line.kind = "nonobject" THEN Ended(noted, "raised", line)
        ELSE Ended(noted, "response", line)

(***************************************************************************)
(* mcp.HttpMCPClient, lines 128-212.  http is                              *)
(*   id          _id                                                       *)
(*   session_id  _session_id, "" for None                                  *)
(*   returned    the identifier of the last response that carried one, and *)
(*   received    the same among the responses opener.open returned         *)
(*   posts       the requests made: kind, the Mcp-Session-Id header sent   *)
(*               ("" for none), returned and received when it was sent,    *)
(*               the reply, and the id the message carries (0: none)       *)
(* A reply is [kind, sid]: "ok" (a response that opener.open returns),     *)
(* "status" (a response with an HTTP error status: opener.open raises      *)
(* HTTPError) or "failure" (no response: URLError, timeout); sid is its    *)
(* Mcp-Session-Id header, "" when it has none or an empty one.             *)
(*   results     what _post returned, where the response had a body that   *)
(*               was looked at                                             *)
(* A reply may carry ctype, the parts of its Content-Type header, and body,*)
(* its lines.  A line is [kind, val]: "json" (a JSON text, of value val),  *)
(* "data_json" ("data: " and a JSON text), "data_empty" ("data: " and      *)
(* white space at most), "data_invalid" ("data: " and no JSON), "event"    *)
(* (another line of an event stream) or "blank".                           *)
(***************************************************************************)
HttpNew ==
    [id |-> 0, session_id |-> "", returned |-> "", received |-> "", posts |-> <<>>,
     closed |-> NotClosed, results |-> <<>>]

BodyLine(kind, val) == [kind |-> kind, val |-> val]

Json(val) == [error |-> FALSE, val |-> val]

ErrorMessage(message) == [error |-> TRUE, val |-> message]

\* line 166: "text/event-stream" in content_type
IsEventStream(ctype) == \E i \in 1..Len(ctype) : ctype[i] = "text/event-stream"

\* json.loads of a whole body: white space around one JSON text
JsonOfBody(body) ==
    LET texts == SelectSeq(body, LAMBDA l : l.kind # "blank")
    IN  IF Len(texts) = 1 /\ texts[1].kind = "json"
        THEN Json(texts[1].val)
        ELSE ErrorMessage("JSONDecodeError")

\* the JSON of the last line that carries some
LastData(body) ==
    LET parsed == SelectSeq(body, LAMBDA l : l.kind = "data_json")
    IN  IF parsed = <<>> THEN ErrorMessage("No JSON in SSE response")
        ELSE Json(parsed[Len(parsed)].val)

\* lines 167-176: the lines of an event stream, in order
FirstData(body) ==
    LET parsed == SelectSeq(body, LAMBDA l : l.kind = "data_json")
    IN  IF parsed = <<>> THEN ErrorMessage("No JSON in SSE response")
        ELSE Json(parsed[1].val)

\* _post, lines 160-182: what the call returns
_post_returns(reply) ==
    IF reply.kind = "status" THEN ErrorMessage("HTTPError")
    ELSE IF reply.kind = "failure" THEN ErrorMessage("URLError")
    ELSE IF IsEventStream(reply.ctype) THEN FirstData(reply.body)
    ELSE JsonOfBody(reply.body)

\* HttpMCPClient.close, lines 214-215: pass
HttpClosed(h) ==
    [h EXCEPT !.closed = [n |-> @.n + 1,
                          sent |-> IF @.n = 0 THEN Len(h.posts) ELSE @.sent,
                          ended |-> IF @.n = 0 THEN Len(h.posts) ELSE @.ended]]

HttpReplies ==
    {[kind |-> k, sid |-> h] : k \in {"ok", "status"}, h \in {"", "s1", "s2"}}
    \cup {[kind |-> "failure", sid |-> ""]}

\* the attribute follows the header of every response
StoredAlways(old, sid) == sid

\* lines 161-163: if sid: self._session_id = sid
Stored(old, sid) == IF sid # "" THEN sid ELSE old

\* _post (and _next_id, for a request): the header is sent when _session_id
\* is set; an exception inside the try leaves the attribute as it was
Posted(h, kind, reply) ==
    [h EXCEPT
        !.id = IF kind = "request" THEN @ + 1 ELSE @,
        !.session_id = IF reply.kind = "ok" THEN Stored(@, reply.sid) ELSE @,
        !.returned = IF reply.kind # "failure" /\ reply.sid # "" THEN reply.sid ELSE @,
        !.received = IF reply.kind = "ok" /\ reply.sid # "" THEN reply.sid ELSE @,
        !.posts = Append(@, [kind |-> kind, header |-> h.session_id,
                             returned |-> h.returned, received |-> h.received,
                             reply |-> reply,
                             id |-> IF kind = "request" THEN h.id + 1 ELSE 0])]

(***************************************************************************)
(* The environment: what servers are configured, what the preferences file *)
(* holds at startup, what the provider answers, what the user types at the *)
(* confirmation prompt and what a started process or a called tool does.   *)
(***************************************************************************)
Desc(name) == [name |-> name, description |-> <<>>]

\* a server's tools/list answer: up to MaxServerTools descriptors
ToolLists ==
    UNION {[1..n -> {Desc(READ), Desc(LOCAL_SHELL)}] : n \in 0..MaxServerTools}

\* mcp.json: two servers, in file order
Configs ==
    {<<[name |-> COMPOSIO, tools |-> a], [name |-> FS, tools |-> b]>> :
        a \in ToolLists, b \in ToolLists}

TurnConfig ==
    <<[name |-> COMPOSIO, tools |-> <<Desc(GH_PR), Desc(GM_SEND)>>],
      [name |-> FS, tools |-> <<Desc(READ)>>]>>

\* servers that name tools as the built-in tools are named
ShadowConfig ==
    <<[name |-> COMPOSIO, tools |-> <<Desc(GH_PR), Desc(MANAGE_TOOLS)>>],
      [name |-> FS, tools |-> <<Desc(LOCAL_SHELL), Desc(READ)>>]>>

\* the same names from both servers
SharedConfig ==
    <<[name |-> COMPOSIO, tools |-> <<Desc(GH_PR), Desc(READ)>>],
      [name |-> FS, tools |-> <<Desc(READ), Desc(GH_PR), Desc(GM_SEND)>>]>>

\* one server whose two groups are each half the total ceiling: with the two
\* built-in tools the registry is larger than MAX_TOOLS, no group than MAX_GROUP
BigTools(prefix) ==
    [i \in 1..(MAX_TOOLS \div 2) |-> Desc(prefix \o <<"_">> \o Digits(i))]

BigConfig ==
    <<[name |-> COMPOSIO, tools |-> BigTools(<<"G", "H">>) \o BigTools(<<"G", "M">>)]>>

\* a server named with capitals, as mcp.json may name one
BIG == <<"B", "i", "g">>

\* n tools named prefix_1 .. prefix_n
ManyTools(prefix, n) == [i \in 1..n |-> Desc(prefix \o <<"_">> \o Digits(i))]

\* one group larger than MAX_GROUP: a prefix group of the Composio server, or
\* the tools of the server named with capitals
OverConfigs ==
    {<<[name |-> COMPOSIO, tools |-> ManyTools(<<"G", "H">>, MAX_GROUP + 1)],
       [name |-> FS, tools |-> <<Desc(READ)>>]>>,
     <<[name |-> BIG, tools |-> ManyTools(<<"x">>, MAX_GROUP + 1)],
       [name |-> FS, tools |-> <<Desc(READ)>>]>>}

\* tools with descriptions to search: two prefix groups of the Composio
\* server, half of their tools described as mail tools, and a second server
MAIL == <<"m", "a", "i", "l">>

SearchConfig ==
    LET described(ts) ==
            [i \in 1..Len(ts) |->
                [name |-> ts[i].name,
                 description |-> IF i % 2 = 0 THEN MAIL ELSE <<>>]]
    IN  <<[name |-> COMPOSIO,
           tools |-> described(ManyTools(<<"G", "H">>, SEARCH_LIMIT \div 2 + 1))
                     \o described(ManyTools(<<"G", "M">>, SEARCH_LIMIT \div 2 + 1))],
          [name |-> FS,
           tools |-> <<[name |-> MAIL, description |-> <<>>],
                       [name |-> READ,
                        description |-> <<"S", "e", "n", "d", " ">> \o MAIL
                                        \o [k \in 1..80 |-> "x"]]>>]>>

\* an item of a tools/list answer that is no object
NotAnObject == [nondict |-> TRUE]

\* mcp.json with two servers of which either may fail: in its constructor,
\* in list_tools, with an error value, or on an item of its answer
FaultyConfigs ==
    {<<[name |-> COMPOSIO, tools |-> <<Desc(GH_PR), Desc(GM_SEND)>>, fault |-> a],
       [name |-> FS, tools |-> ts, fault |-> b]>> :
        a \in {"none", "construct", "list", "error"},
        b \in {"none", "construct", "list", "error"},
        ts \in {<<Desc(READ)>>, <<Desc(READ), NotAnObject, Desc(MAIL)>>,
                <<NotAnObject, Desc(READ)>>}}

GH == <<"g", "h">>
GH_UPPER == <<"G", "H">>
GM == <<"g", "m">>
ALL == <<"a", "l", "l">>

PrefsData(disabled, picked) ==
    [disabled_groups |-> disabled, picked_tools |-> picked]

\* tool_prefs.json at startup
PrefsFiles ==
    {NoFile} \cup
    {_save_tool_prefs(PrefsData(d, p)) :
        d \in {<<GM>>, <<FS, GH>>, <<FS, GM, LOCAL_SHELL>>},
        p \in {<<>>, <<GH_PR, READ>>}}

\* mcp.json: the aggregator and a second server, each with up to two tools:
\* names with and without the separator, and the name of a built-in tool
GroupConfigs ==
    LET lists == UNION {[1..n -> {Desc(GH_PR), Desc(READ), Desc(LOCAL_SHELL)}] :
                           n \in 0..MaxServerTools}
    IN  {<<[name |-> COMPOSIO, tools |-> a], [name |-> FS, tools |-> b]>> :
            a \in lists, b \in lists}

\* three groups, each half the total ceiling, of two servers
HugeConfig ==
    <<[name |-> COMPOSIO, tools |-> BigTools(<<"G", "H">>) \o BigTools(<<"G", "M">>)],
      [name |-> FS, tools |-> ManyTools(<<"f">>, MAX_TOOLS \div 2)]>>

\* tool_prefs.json at startup, for such registries
StartupFiles ==
    {NoFile,
     _save_tool_prefs(PrefsData(<<GM>>, <<>>)),
     _save_tool_prefs(PrefsData(<<GM>>, <<<<"G", "M", "_", "1">>>>)),
     _save_tool_prefs(PrefsData(<<FS, GM>>, <<>>))}

\* tool_prefs.json at startup: none, or one the program wrote
ShapeFiles == {NoFile, _save_tool_prefs(PrefsData(<<FS>>, <<READ>>))}

\* argument payloads
Obj(val) == [kind |-> "object", val |-> val]
NonObject == [kind |-> "nonobject", val |-> <<>>]
Invalid == [kind |-> "invalid", val |-> <<>>]

Call(name, payload) == [name |-> name, arguments |-> payload]

LS == <<"l", "s">>

\* the plain call: an external tool, an empty argument object
PlainCall == Call(READ, Obj(<<>>))

REPLY == Lit("reply", 5)
THOUGHT == Lit("thought", 7)
USER_INPUT == Lit("user_input", 5)
SYSTEM_PROMPT == Lit("system_prompt", 100)

\* plain responses: a text, one plain call
PlainResponses ==
    << [text |-> REPLY, calls |-> <<>>],
       [text |-> <<>>, calls |-> <<PlainCall>>] >>

TextResponses == << [text |-> REPLY, calls |-> <<>>] >>

ManageCalls ==
    << Call(MANAGE_TOOLS, Obj("action" :> "list")),
       Call(MANAGE_TOOLS, Obj(<<>>)),
       Call(MANAGE_TOOLS, Obj(("action" :> "enable") @@ ("group" :> <<"G", "M">>))),
       Call(MANAGE_TOOLS, Obj(("action" :> "disable") @@ ("group" :> GH))),
       Call(MANAGE_TOOLS, Obj(("action" :> "enable") @@ ("group" :> GH))),
       Call(MANAGE_TOOLS, Obj("action" :> "disable")),
       Call(MANAGE_TOOLS, Obj(("action" :> "enable_tools")
                              @@ ("tools" :> <<GM_SEND, <<"g", "h", "_", "p", "r">>, NOPE>>))),
       Call(MANAGE_TOOLS, Obj("action" :> "enable_tools")),
       Call(MANAGE_TOOLS, Obj("action" :> "bogus")),
       Call(MANAGE_TOOLS, NonObject) >>

\* searches: one word, two words, capitals, no hit, blanks only, no query
SearchCalls ==
    LET ask(q) == Call(MANAGE_TOOLS, Obj(("action" :> "search") @@ ("query" :> q)))
    IN  << ask(<<"G">>), ask(MAIL), ask(<<"g", " ", " ">> \o MAIL),
           ask(<<"G", "H", "_", "1", " ", "m", "a", "i", "l", " ", "z">>),
           ask(<<"z", "z">>), ask(<<" ", " ">>),
           Call(MANAGE_TOOLS, Obj("action" :> "search")) >>

\* requests to the tool manager that name a group as it is labelled
LabelCalls ==
    << Call(MANAGE_TOOLS, Obj(("action" :> "enable") @@ ("group" :> GH))),
       Call(MANAGE_TOOLS, Obj(("action" :> "enable") @@ ("group" :> BIG))),
       Call(MANAGE_TOOLS, Obj(("action" :> "disable") @@ ("group" :> GH))) >>

\* requests to the tool manager that change the preferences
ShapeCalls ==
    << Call(MANAGE_TOOLS, Obj(("action" :> "enable") @@ ("group" :> GH))),
       Call(MANAGE_TOOLS, Obj(("action" :> "disable") @@ ("group" :> <<"F", "S">>))),
       Call(MANAGE_TOOLS, Obj(("action" :> "enable_tools")
                              @@ ("tools" :> << <<"G", "H", "_", "2">>,
                                                <<"G", "H", "_", "1">>,
                                                <<"G", "H", "_", "2">> >>))) >>

TurnCalls ==
    << Call(READ, Obj(<<>>)),
       Call(READ, Invalid),
       Call(READ, NonObject),
       Call(GH_PR, Obj(<<>>)),
       Call(NOPE, Obj(<<>>)),
       Call(LOCAL_SHELL, Obj("command" :> LS)),
       Call(LOCAL_SHELL, Obj(("command" :> LS) @@ ("timeout" :> 5))),
       Call(LOCAL_SHELL, Obj(<<>>)),
       Call(LOCAL_SHELL, Invalid),
       Call(LOCAL_SHELL, NonObject) >>
    \o ManageCalls

\* what client.call_tool of a server does; the first is the default
ExtOutcomes ==
    << [kind |-> "text", n |-> 3, elen |-> 0],
       [kind |-> "text", n |-> RESULT_CAP, elen |-> 0],
       [kind |-> "text", n |-> RESULT_CAP + 1, elen |-> 0],
       [kind |-> "text", n |-> 0, elen |-> 0],
       [kind |-> "raise", n |-> 0, elen |-> 4],
       [kind |-> "error", n |-> 40, elen |-> 0] >>

Line(text) == [kind |-> "line", text |-> text]

Done(stdout, stderr, rc) ==
    [kind |-> "done", stdout |-> stdout, stderr |-> stderr, rc |-> rc, elen |-> 0]

\* what the user answers, and what the process does if it is started; the
\* first is the default
ShellScenarios ==
    << [answer_in |-> Line(<<"y">>), outcome |-> Done(5, 0, 0)] >>
    \o [i \in 1..10 |->
          [answer_in |->
              << Line(<<"Y">>), Line(<<"y", "e", "s">>), Line(<<" ", "Y", "e", "s", " ">>),
                 Line(<<"n">>), Line(<<>>), Line(<<"y", "y">>), Line(<<"y", "e">>),
                 Line(<<"o", "k">>),
                 [kind |-> "eof", text |-> <<>>],
                 [kind |-> "interrupt", text |-> <<>>] >>[i],
           outcome |-> Done(5, 0, 0)]]
    \o [i \in 1..10 |->
          [answer_in |-> Line(<<"y">>),
           outcome |->
              << Done(0, 0, 0), Done(0, 4, 1), Done(5, 4, 0), Done(5, 0, 1),
                 Done(RESULT_CAP - 10, 4, 0), Done(RESULT_CAP + 1, 0, 0),
                 Done(LOCAL_CAP + 1, 0, 0), Done(LOCAL_CAP - 10, 4, 1),
                 [kind |-> "timeout", stdout |-> 0, stderr |-> 0, rc |-> 0, elen |-> 0],
                 [kind |-> "error", stdout |-> 0, stderr |-> 0, rc |-> 0, elen |-> 4] >>[i]]]


(***************************************************************************)
(* The state.                                                              *)
(*   chat_loop:   mcp_clients, all_tools, tool_map, tools, chat_state,     *)
(*                provider, messages; servers and gen stand for mcp.json   *)
(*                and for the generation of the client objects             *)
(*   the disk:    prefs_file                                               *)
(*   _chat_turn:  pc, round, turn_tools (its parameter tools), response,   *)
(*                tc_i (the position of the loop over the tool calls),     *)
(*                results, reply                                           *)
(*   history:     provider_calls and turn_base (calls made in this turn;   *)
(*                length of the history when it began), raw_results (the   *)
(*                texts of this round before the cap), sent (what the last *)
(*                provider call was given), observed (what the first one   *)
(*                of the session was given), routed (the last              *)
(*                execute_tool), last_shell (the last local_shell call: its *)
(*                arguments, the answer at the prompt, what the process    *)
(*                did, the text returned and whether the call raised),     *)
(*                filter_call (the last _apply_filter), lifecycle (the     *)
(*                closes and constructions of the last reload, in the      *)
(*                order they were made), varied and wild                   *)
(*                (the responses and outcomes drawn so far), asked (the    *)
(*                last request to enable or disable that named a group     *)
(*                larger than MAX_GROUP), found (the last search)          *)
(*   a client:    stdio (one StdioMCPClient, its server and the pipe       *)
(*                between them), spinner (the thread of render.Spinner),   *)
(*                http (one HttpMCPClient)                                 *)
(*   two processes: disk (the preferences file while one process saves it  *)
(*                and another starts)                                      *)
(***************************************************************************)
VARIABLES
    servers, gen, mcp_clients, all_tools, tool_map, prefs_file, tools, chat_state,
    provider, messages, pc, round, turn_tools, response, tc_i, results, reply,
    provider_calls, turn_base, raw_results, sent, observed, routed, last_shell,
    filter_call, lifecycle, varied, wild, asked, found, stdio, spinner, http, disk

\* the variables of chat_loop, but asked
session ==
    << servers, gen, mcp_clients, all_tools, tool_map, prefs_file, tools, chat_state,
       provider, messages, pc, round, turn_tools, response, tc_i, results, reply,
       provider_calls, turn_base, raw_results, sent, observed, routed, last_shell,
       filter_call, lifecycle, varied, wild, found >>

\* the variables of the transport clients
apart == << stdio, spinner, http, disk >>

vars == << session, asked, apart >>

NoResponse == [role |-> "assistant", content |-> <<>>, tool_calls |-> <<>>]

\* the preference state of a preferences file
PrefsKey(file) ==
    [disabled |-> DisabledOf(_load_tool_prefs(file)),
     picked |-> PickedOf(_load_tool_prefs(file))]

(***************************************************************************)
(* chat._save_tool_prefs, lines 86-89, step by step, in another process    *)
(* that shares the file.  disk is the file, whether the other process has  *)
(* it open for writing, the file as it was before that save (old), and     *)
(* what a process that started last read (reader): the preferences it      *)
(* loaded, and those of the old and of the new contents then.              *)
(***************************************************************************)
DiskWith(file) ==
    [file |-> file, writing |-> FALSE, old |-> file, saves |-> 0,
     reader |-> [starts |-> 0, during |-> "all", saw |-> PrefsKey(file),
                 old |-> PrefsKey(file), new |-> PrefsKey(file)]]

\* the labels of the groups with more than MAX_GROUP tools
OverCeiling(atools, tmap) ==
    LET groups == _group_tools(atools, tmap)
    IN  {g \in DOMAIN groups : Len(groups[g]) > MAX_GROUP}

NotAsked == [op |-> "none", label |-> <<>>]

\* asked after a request op that named label as typed: a request that names
\* such a group is recorded, a request to disable clears the record
Asked(op, label) ==
    IF op = "enable" /\ label \in OverCeiling(all_tools, tool_map)
    THEN [op |-> op, label |-> label]
    ELSE IF op = "disable" THEN NotAsked
    ELSE asked

\* chat_loop up to the first prompt
InitWith(cfg, file, p) ==
    \E st \in {Startup(cfg, file)} :
        /\ servers = cfg
        /\ gen = 0
        /\ mcp_clients = st.reg.mcp_clients
        /\ all_tools = st.reg.all_tools
        /\ tool_map = st.reg.tool_map
        /\ prefs_file = st.file
        /\ tools = st.tools
        /\ chat_state = [tools |-> st.tools, needs_tool_refresh |-> FALSE]
        /\ provider = p
        /\ messages = <<[role |-> "system", content |-> SYSTEM_PROMPT]>>
        /\ pc = "idle"
        /\ round = 0
        /\ turn_tools = <<>>
        /\ response = NoResponse
        /\ tc_i = 0
        /\ results = <<>>
        /\ reply = <<>>
        /\ provider_calls = 0
        /\ turn_base = 0
        /\ raw_results = <<>>
        /\ sent = [made |-> FALSE, key |-> PrefsKey(st.file), tools |-> <<>>, history |-> 0]
        /\ observed = [made |-> FALSE, key |-> PrefsKey(st.file), tools |-> <<>>,
                        history |-> 0]
        /\ routed = [name |-> <<>>, client |-> NoClient]
        /\ last_shell = [prompted |-> FALSE, started |-> FALSE,
                         answer_in |-> Line(<<>>), text |-> <<>>,
                         arguments |-> <<>>, outcome |-> Done(0, 0, 0),
                         raised |-> FALSE]
        /\ filter_call = [prefs |-> st.prefs, result |-> st.filtered]
        /\ lifecycle = <<>>
        /\ varied = 0
        /\ wild = 0
        /\ asked = NotAsked
        /\ found = Search(<<>>, <<>>, <<>>, {})
        /\ stdio = StdioSpawned
        /\ spinner = [running |-> FALSE, frame |-> 0]
        /\ http = HttpNew
        /\ disk = DiskWith(file)

(***************************************************************************)
(* chat_loop, lines 1004-1017: the reload, with the servers now configured *)
(* as cfg and the preferences file as file.                                *)
(***************************************************************************)
DoReload(cfg, file) ==
    \E reg \in {BuildRegistry(cfg, gen + 1)}, tool_prefs \in {_load_tool_prefs(file)} :
    \E ts \in {_apply_filter(reg.all_tools, reg.tool_map, tool_prefs)} :
        /\ servers' = cfg
        /\ gen' = gen + 1
        /\ mcp_clients' = reg.mcp_clients
        /\ all_tools' = reg.all_tools
        /\ tool_map' = reg.tool_map
        /\ prefs_file' = file
        /\ tools' = ts
        /\ chat_state' = [tools |-> ts, needs_tool_refresh |-> FALSE]
        /\ filter_call' = [prefs |-> tool_prefs, result |-> ts]
        /\ lifecycle' = close_all(mcp_clients) \o Created(reg.mcp_clients)
        /\ UNCHANGED << provider, messages, pc, round, turn_tools, response, tc_i,
                        results, reply, provider_calls, turn_base, raw_results, sent,
                        observed, routed, last_shell, varied, wild, found,
                        apart >>

\* "/reload"; the servers may report other tools than before
SlashReload(cfgs) ==
    /\ pc = "idle"
    /\ gen < MaxReloads
    /\ \E cfg \in cfgs : DoReload(cfg, prefs_file)
    /\ UNCHANGED asked

\* "/enable <arg>", lines 482-500
SlashEnable(args) ==
    /\ pc = "idle"
    /\ gen < MaxReloads
    /\ \E arg \in args :
          LET prefs == _load_tool_prefs(prefs_file)
              disabled == DisabledOf(prefs)
              target == StrLower(arg)
          IN  /\ asked' = Asked("enable", arg)
              /\ IF target = ALL \/ target \in disabled
                 THEN DoReload(servers,
                          _save_tool_prefs(
                              SetKey(prefs, "disabled_groups",
                                     SortedList(IF target = ALL THEN {}
                                                ELSE disabled \ {target}))))
                 ELSE UNCHANGED << session, apart >>

\* RAW_FNS, lines 326-330: the provider names, and the provider each selects
OPENAI == <<"o", "p", "e", "n", "a", "i">>
ANTHROPIC == <<"a", "n", "t", "h", "r", "o", "p", "i", "c">>
OLLAMA == <<"o", "l", "l", "a", "m", "a">>

RAW_FNS == (OPENAI :> "openai") @@ (ANTHROPIC :> "anthropic") @@ (OLLAMA :> "ollama")

\* DEFAULT_API_KEY_ENVS, lines 332-336: ollama alone needs no key
NeedsKey(p) == p # "ollama"

\* KNOWN_MODELS, lines 132-160: one model of each provider
KNOWN_MODELS ==
    ("gpt-4o" :> "openai") @@ ("claude-opus-4-6" :> "anthropic") @@ ("llama4" :> "ollama")

\* the loop takes the provider the command returns, line 1018-1019; the history
\* is left as it is
SwitchTo(new_provider) ==
    /\ provider' = new_provider
    /\ UNCHANGED << servers, gen, mcp_clients, all_tools, tool_map, prefs_file, tools,
                    chat_state, messages, pc, round, turn_tools, response, tc_i,
                    results, reply, provider_calls, turn_base, raw_results, sent,
                    observed, routed, last_shell, filter_call, lifecycle, varied, wild, asked,
                    found, apart >>

\* "/provider <arg>", lines 447-466; key_set: the key of the provider asked for
\* is in the environment
SlashProvider(args) ==
    /\ pc = "idle"
    /\ \E arg \in args, key_set \in BOOLEAN :
          LET new_provider == StrLower(arg)
          IN  IF new_provider \notin DOMAIN RAW_FNS THEN UNCHANGED vars
              ELSE IF NeedsKey(RAW_FNS[new_provider]) /\ ~key_set THEN UNCHANGED vars
              ELSE SwitchTo(RAW_FNS[new_provider])

\* "/model <arg>", lines 418-445: the provider of a known model, the provider
\* in use for any other name
SlashModel(args) ==
    /\ pc = "idle"
    /\ \E arg \in args, key_set \in BOOLEAN :
          LET new_provider == IF arg \in DOMAIN KNOWN_MODELS THEN KNOWN_MODELS[arg]
                              ELSE provider
          IN  IF new_provider # provider /\ NeedsKey(new_provider) /\ ~key_set
              THEN UNCHANGED vars
              ELSE SwitchTo(new_provider)

\* "/disable <arg>", lines 502-525
SlashDisable(args) ==
    /\ pc = "idle"
    /\ gen < MaxReloads
    /\ \E arg \in args :
          LET prefs == _load_tool_prefs(prefs_file)
              disabled == DisabledOf(prefs)
              target == StrLower(arg)
              groups == _group_tools(all_tools, tool_map)
          IN  /\ asked' = Asked("disable", arg)
              /\ IF target = ALL
                 THEN DoReload(servers,
                          _save_tool_prefs(
                              SetKey(prefs, "disabled_groups",
                                     SortedList(DOMAIN groups
                                                \ {LOCAL_SHELL, MANAGE_TOOLS}))))
                 ELSE IF target \notin DOMAIN groups
                 THEN UNCHANGED << session, apart >>
                 ELSE DoReload(servers,
                          _save_tool_prefs(
                              SetKey(prefs, "disabled_groups",
                                     SortedList(disabled \cup {target}))))

\* mcp.execute_tool called with the routing map of the session
ExecuteTool ==
    /\ pc = "idle"
    /\ \E name \in (Range(ToolNames(all_tools)) \cup {NOPE}) \ {LOCAL_SHELL, MANAGE_TOOLS} :
          routed' = [name |-> name,
                     client |-> execute_tool(tool_map, name,
                                             [kind |-> "dict", val |-> <<>>],
                                             ExtOutcomes[1]).client]
    /\ UNCHANGED << servers, gen, mcp_clients, all_tools, tool_map, prefs_file, tools,
                    chat_state, provider, messages, pc, round, turn_tools, response,
                    tc_i, results, reply, provider_calls, turn_base, raw_results, sent,
                    observed, last_shell, filter_call, lifecycle, varied, wild, asked, found,
                    apart >>

(***************************************************************************)
(* chat_loop, lines 1029-1031: a user message starts a turn.               *)
(***************************************************************************)
UserMessageUpTo(n) ==
    /\ pc = "idle"
    /\ Len(messages) < n
    /\ messages' = Append(messages, [role |-> "user", content |-> USER_INPUT])
    /\ pc' = "call"
    /\ round' = 0
    /\ turn_tools' = tools
    /\ provider_calls' = 0
    /\ turn_base' = Len(messages) + 1
    /\ UNCHANGED << servers, gen, mcp_clients, all_tools, tool_map, prefs_file, tools,
                    chat_state, provider, response, tc_i, results, reply, raw_results,
                    sent, observed, routed, last_shell, filter_call, lifecycle, varied, wild,
                    asked, found, apart >>

UserMessage == UserMessageUpTo(MaxHistory)

(***************************************************************************)
(* _chat_turn, lines 855-868: the head of a round, up to the first tool    *)
(* call or the return.  wire is what the provider answers.                 *)
(***************************************************************************)
\* the tools the turn began with, whatever the tool manager did since
ToolsOfTurnStart(cs, tl) == tl

\* lines 857-858: tools = chat_state["tools"] when the flag is set
ToolsOfRound(cs, tl) == IF cs.needs_tool_refresh THEN cs.tools ELSE tl

Respond(wire) ==
    LET tl == ToolsOfRound(chat_state, turn_tools)
        resp == raw_fn(provider, wire)
    IN  /\ turn_tools' = tl
        /\ chat_state' = [chat_state EXCEPT !.needs_tool_refresh = FALSE]
        /\ response' = resp
        /\ provider_calls' = provider_calls + 1
        /\ sent' = [made |-> TRUE, key |-> PrefsKey(prefs_file),
                    tools |-> ToolNames(tl), history |-> Len(messages)]
        /\ observed' = IF observed.made THEN observed ELSE sent'
        /\ results' = <<>>
        /\ raw_results' = <<>>
        /\ IF resp.tool_calls = <<>>
           THEN /\ pc' = "returned"
                /\ reply' = resp.content
                /\ tc_i' = 0
           ELSE /\ pc' = "dispatch"
                /\ reply' = reply
                /\ tc_i' = 1
        /\ UNCHANGED << servers, gen, mcp_clients, all_tools, tool_map, prefs_file,
                        tools, provider, messages, round, turn_base, routed, last_shell,
                        filter_call, lifecycle, asked, found, apart >>

\* a plain response
ProviderPlain(plain) ==
    /\ pc = "call"
    /\ round < MAX_TOOL_ROUNDS
    /\ \E i \in 1..Len(plain) : Respond(plain[i])
    /\ varied' = varied
    /\ wild' = 0

\* a response of up to MaxCalls calls, one of them any call of calls at any
\* position, the others plain; only OpenAI passes on a payload that is no JSON.
\* One call of the round may then meet an outcome other than the default.
ProviderVaried(calls) ==
    /\ pc = "call"
    /\ round < MAX_TOOL_ROUNDS
    /\ varied < MaxVaried
    /\ \E s \in 1..Len(calls), n \in 1..MaxCalls :
          \E j \in 1..n :
             /\ calls[s].arguments.kind = "invalid" => provider = "openai"
             /\ Respond([text |-> IF n = 1 THEN THOUGHT ELSE <<>>,
                         calls |-> [i \in 1..n |-> IF i = j THEN calls[s] ELSE PlainCall]])
             /\ wild' = IF calls[s].name = MANAGE_TOOLS THEN 0 ELSE 1
    /\ varied' = varied + 1

\* a response with no text and no tool call
ProviderSilent ==
    /\ pc = "call"
    /\ round < MAX_TOOL_ROUNDS
    /\ varied < MaxVaried
    /\ Respond([text |-> <<>>, calls |-> <<>>])
    /\ varied' = varied + 1
    /\ wild' = 0

\* line 895: the rounds are used up
CeilingReached ==
    /\ pc = "call"
    /\ round = MAX_TOOL_ROUNDS
    /\ pc' = "returned"
    /\ reply' = SENTINEL
    /\ UNCHANGED << servers, gen, mcp_clients, all_tools, tool_map, prefs_file, tools,
                    chat_state, provider, messages, round, turn_tools, response, tc_i,
                    results, provider_calls, turn_base, raw_results, sent, observed,
                    routed, last_shell, filter_call, lifecycle, varied, wild, asked, found,
                    apart >>


(***************************************************************************)
(* _chat_turn, lines 869-888: one tool call of the round.                  *)
(***************************************************************************)
\* the tool call at hand, its name and its parsed arguments
Tc == response.tool_calls[tc_i]

\* the local shell alone taken for a built-in tool
IsLocalShellOnly(name) == name = LOCAL_SHELL

\* line 877: name in ("local_shell", "manage_tools")
IsPseudoTool(name) == name \in {LOCAL_SHELL, MANAGE_TOOLS}

Called == Tc.function.name

Arguments == ParseArguments(Tc.function.arguments)

\* lines 885-888: the text is capped and the result joins the results
Finish(result_text) ==
    /\ results' = Append(results, [id |-> Tc.id, content |-> CapResult(result_text)])
    /\ raw_results' = Append(raw_results, result_text)
    /\ tc_i' = tc_i + 1
    /\ pc' = IF tc_i = Len(response.tool_calls) THEN "append" ELSE "dispatch"

\* an exception leaves _chat_turn and chat_loop
Raise ==
    /\ pc' = "raised"
    /\ UNCHANGED <<results, raw_results, tc_i>>

\* line 884: an external tool, through the routing map
DispatchExternal ==
    /\ pc = "dispatch"
    /\ ~IsPseudoTool(Called)
    /\ \E k \in 1..Len(ExtOutcomes) :
          LET r == execute_tool(tool_map, Called, Arguments, ExtOutcomes[k])
          IN  /\ k # 1 => wild > 0 /\ Called \in DOMAIN tool_map
              /\ wild' = IF k = 1 THEN wild ELSE wild - 1
              /\ routed' = [name |-> Called, client |-> r.client]
              /\ Finish(r.text)
    /\ UNCHANGED << servers, gen, mcp_clients, all_tools, tool_map, prefs_file, tools,
                    chat_state, provider, messages, round, turn_tools, response, reply,
                    provider_calls, turn_base, sent, observed, last_shell, filter_call, lifecycle,
                    varied, asked, found, apart >>

\* lines 878-881 with the local shell
DispatchLocalShell ==
    /\ pc = "dispatch"
    /\ IsPseudoTool(Called)
    /\ Called = LOCAL_SHELL
    /\ \E k \in 1..Len(ShellScenarios) :
          LET sc == ShellScenarios[k]
              r == LocalShellCall(Arguments, sc.answer_in, sc.outcome)
          IN  /\ k # 1 => wild > 0 /\ r.prompted
              /\ wild' = IF k = 1 THEN wild ELSE wild - 1
              /\ last_shell' = [prompted |-> r.prompted, started |-> r.started,
                                answer_in |-> sc.answer_in, text |-> r.text,
                                arguments |-> Arguments.val, outcome |-> sc.outcome,
                                raised |-> r.raised]
              /\ IF r.raised THEN Raise ELSE Finish(r.text)
    /\ UNCHANGED << servers, gen, mcp_clients, all_tools, tool_map, prefs_file, tools,
                    chat_state, provider, messages, round, turn_tools, response, reply,
                    provider_calls, turn_base, sent, observed, routed, filter_call, lifecycle,
                    varied, asked, found, apart >>

\* lines 878-881 with the tool manager
DispatchManageTools ==
    /\ pc = "dispatch"
    /\ IsPseudoTool(Called)
    /\ Called # LOCAL_SHELL
    /\ LET r == ManageToolsCall(Arguments, all_tools, tool_map, prefs_file)
       IN  /\ prefs_file' = r.file
           /\ chat_state' = IF r.refreshed
                            THEN [tools |-> r.tools, needs_tool_refresh |-> TRUE]
                            ELSE chat_state
           /\ filter_call' = IF r.refreshed
                             THEN [prefs |-> r.prefs, result |-> r.tools]
                             ELSE filter_call
           /\ asked' = IF Arguments.kind = "dict"
                       THEN Asked(Get(Arguments.val, "action", "list"),
                                  Get(Arguments.val, "group", <<>>))
                       ELSE asked
           /\ found' = IF Arguments.kind = "dict"
                          /\ Get(Arguments.val, "action", "list") = "search"
                       THEN Search(Arguments.val, all_tools, tool_map,
                                   DisabledOf(_load_tool_prefs(prefs_file)))
                       ELSE found
           /\ IF r.raised THEN Raise ELSE Finish(r.text)
    /\ UNCHANGED << servers, gen, mcp_clients, all_tools, tool_map, tools, provider,
                    messages, round, turn_tools, response, reply, provider_calls,
                    turn_base, sent, observed, routed, last_shell, lifecycle, varied,
                    wild, apart >>

\* lines 890-893: the round's results join the history
AppendResults ==
    /\ pc = "append"
    /\ messages' = AppendByProvider(messages, response, results, provider)
    /\ round' = round + 1
    /\ pc' = "call"
    /\ wild' = 0
    /\ UNCHANGED << servers, gen, mcp_clients, all_tools, tool_map, prefs_file, tools,
                    chat_state, provider, turn_tools, response, tc_i, results, reply,
                    provider_calls, turn_base, raw_results, sent, observed, routed,
                    last_shell, filter_call, lifecycle, varied, asked, found, apart >>

\* chat_loop, lines 1032-1038: the reply of the turn
TurnEnd ==
    /\ pc = "returned"
    /\ tools' = chat_state.tools
    /\ messages' = IF reply # <<>>
                   THEN Append(messages, [role |-> "assistant", content |-> reply])
                   ELSE messages
    /\ pc' = "idle"
    /\ UNCHANGED << servers, gen, mcp_clients, all_tools, tool_map, prefs_file,
                    chat_state, provider, round, turn_tools, response, tc_i, results,
                    reply, provider_calls, turn_base, raw_results, sent, observed,
                    routed, last_shell, filter_call, lifecycle, varied, wild, asked, found,
                    apart >>

(***************************************************************************)
(* The steps of a StdioMCPClient, of its server and of the spinner thread. *)
(***************************************************************************)
\* the spinner runs while execute_tool does (chat.py, lines 883-884)
\* and a Spinner begins with its first frame
SpinnerFor(st) ==
    [running |-> st.call.method = "tools/call",
     frame |-> IF spinner.running /\ st.call.method = "tools/call" THEN spinner.frame
               ELSE 0]

\* __init__: _initialize sends the first request
Handshake ==
    /\ stdio.phase = "spawned"
    /\ stdio.call = NoCall
    /\ stdio' = Written(stdio, "initialize")
    /\ UNCHANGED << session, asked, spinner, http, disk >>

\* list_tools and call_tool: _send
Request ==
    /\ stdio.phase = "ready"
    /\ MaySend(stdio)
    /\ stdio.id <= MaxRequests
    /\ \E method \in {"tools/list", "tools/call"} :
          /\ stdio' = Written(stdio, method)
          /\ spinner' = SpinnerFor(stdio')
    /\ UNCHANGED << session, asked, http, disk >>

\* close_all: close() of a client that was constructed
StdioClose ==
    /\ stdio.phase = "ready"
    /\ stdio.call = NoCall
    /\ stdio.closed.n < MaxCloses
    /\ stdio' = StdioClosed(stdio)
    /\ UNCHANGED << session, asked, spinner, http, disk >>

\* readline() returns a line
ReadLine ==
    /\ stdio.call # NoCall
    /\ stdio.pipe # <<>>
    /\ stdio' = ReadOne(stdio)
    /\ spinner' = SpinnerFor(stdio')
    /\ UNCHANGED << session, asked, http, disk >>

\* readline() returns nothing: the output is closed and read to its end
ReadEof ==
    /\ stdio.call # NoCall
    /\ stdio.pipe = <<>>
    /\ stdio.eof
    /\ stdio' = Ended(stdio, "error", NoLine)
    /\ spinner' = SpinnerFor(stdio')
    /\ UNCHANGED << session, asked, http, disk >>

ServerWrites ==
    /\ ~stdio.eof
    /\ stdio.emitted < MaxLines
    /\ \E l \in ServerLines(stdio.id) :
          stdio' = [stdio EXCEPT
                       !.emitted = @ + 1,
                       !.pipe = Append(@, [serial |-> stdio.emitted + 1, kind |-> l.kind,
                                           id |-> l.id, body |-> l.body])]
    /\ UNCHANGED << session, asked, spinner, http, disk >>

ServerClosesOutput ==
    /\ ~stdio.eof
    /\ stdio' = [stdio EXCEPT !.eof = TRUE]
    /\ UNCHANGED << session, asked, spinner, http, disk >>

ServerExits ==
    /\ ~stdio.exited
    /\ stdio' = [stdio EXCEPT !.eof = TRUE, !.exited = TRUE]
    /\ UNCHANGED << session, asked, spinner, http, disk >>

\* Spinner._spin, lines 106-112: the thread writes a frame to stderr
Spin ==
    /\ spinner.running
    /\ spinner' = [spinner EXCEPT !.frame = (@ + 1) % 10]
    /\ UNCHANGED << session, asked, stdio, http, disk >>

(***************************************************************************)
(* The steps of an HttpMCPClient: the initialize request, the notification *)
(* and then requests (lines 184-212), each answered or not by the server.  *)
(***************************************************************************)
HttpPost ==
    /\ Len(http.posts) < MaxPosts
    /\ \E answer \in HttpReplies :
          http' = Posted(http, IF Len(http.posts) = 1 THEN "notification" ELSE "request",
                         answer)
    /\ UNCHANGED << session, asked, stdio, spinner, disk >>

\* the bodies a server may answer with
BodyLines ==
    {BodyLine("json", "v1"), BodyLine("data_json", "v1"), BodyLine("data_json", "v2"),
     BodyLine("data_empty", ""), BodyLine("data_invalid", ""), BodyLine("event", ""),
     BodyLine("blank", "")}

Bodies == UNION {[1..n -> BodyLines] : n \in 0..MaxBody}

ContentTypes ==
    {<<"application/json">>, <<"text/event-stream">>,
     <<"text/event-stream", "charset=utf-8">>, <<>>}

FramedReplies ==
    {[kind |-> "ok", sid |-> "", ctype |-> c, body |-> b] : c \in ContentTypes, b \in Bodies}
    \cup {[kind |-> k, sid |-> "", ctype |-> <<>>, body |-> <<>>] : k \in {"status", "failure"}}

\* _post of a request, with the body of the response
HttpFramed ==
    /\ Len(http.posts) < MaxFramed
    /\ \E answer \in FramedReplies :
          http' = [Posted(http, "request", answer)
                      EXCEPT !.results = Append(@, _post_returns(answer))]
    /\ UNCHANGED << session, asked, stdio, spinner, disk >>

\* close_all: close() of a client that was constructed
HttpClose ==
    /\ Len(http.posts) >= 2
    /\ http.closed.n < MaxCloses
    /\ http' = HttpClosed(http)
    /\ UNCHANGED << session, asked, stdio, spinner, disk >>

(***************************************************************************)
(* The steps of a save in another process, and the start of a process.     *)
(***************************************************************************)
\* line 88: open(path, "w") leaves an empty file at the path
SaveOpens ==
    /\ ~disk.writing
    /\ disk.saves < MaxSaves
    /\ \E prefs \in {PrefsData(<<GH>>, <<>>), PrefsData(<<FS, GM>>, <<GH_PR>>)} :
          disk' = [disk EXCEPT !.old = disk.file,
                               !.file = [exists |-> TRUE, data |-> prefs, upto |-> "none"],
                               !.writing = TRUE,
                               !.saves = @ + 1]
    /\ UNCHANGED << session, asked, stdio, spinner, http >>

\* line 89: json.dump has filled the buffer of the file object, which goes
\* to the file before the rest is written
SaveFlushes ==
    /\ disk.writing
    /\ disk.file.upto = "none"
    /\ disk' = [disk EXCEPT !.file.upto = "part"]
    /\ UNCHANGED << session, asked, stdio, spinner, http >>

\* the end of the with block: the rest is written and the file closed
SaveCloses ==
    /\ disk.writing
    /\ disk' = [disk EXCEPT !.file.upto = "all", !.writing = FALSE]
    /\ UNCHANGED << session, asked, stdio, spinner, http >>

\* chat_loop, line 929, in a process that starts: _load_tool_prefs()
ProcessStarts ==
    /\ disk.reader.starts < MaxStarts
    /\ disk' = [disk EXCEPT
                    !.reader = [starts |-> @.starts + 1,
                                during |-> IF disk.writing THEN disk.file.upto ELSE "all",
                                saw |-> PrefsKey(disk.file),
                                old |-> PrefsKey(disk.old),
                                new |-> PrefsKey([disk.file EXCEPT !.upto = "all"])]]
    /\ UNCHANGED << session, asked, stdio, spinner, http >>

(***************************************************************************)
(* Specifications.                                                         *)
(***************************************************************************)
\* the registry: any two servers with any short tool lists; reloads; calls
InitRegistry == \E cfg \in Configs : InitWith(cfg, NoFile, "openai")

NextRegistry ==
    \/ SlashReload(Configs)
    \/ ExecuteTool

SpecRegistry == InitRegistry /\ [][NextRegistry]_vars

\* the registry when servers fail: at startup and at every reload
InitFaulty == \E cfg \in FaultyConfigs : InitWith(cfg, NoFile, "openai")

NextFaulty ==
    \/ SlashReload(FaultyConfigs)
    \/ ExecuteTool

SpecFaulty == InitFaulty /\ [][NextFaulty]_vars

\* the turn: a fixed registry, one group disabled, every provider
InitTurn ==
    \E p \in {"openai", "anthropic", "ollama"} :
        InitWith(TurnConfig, _save_tool_prefs(PrefsData(<<GM>>, <<>>)), p)

NextTurn ==
    \/ UserMessage
    \/ ProviderPlain(PlainResponses)
    \/ ProviderVaried(TurnCalls)
    \/ ProviderSilent
    \/ CeilingReached
    \/ DispatchExternal
    \/ DispatchLocalShell
    \/ DispatchManageTools
    \/ AppendResults
    \/ TurnEnd

SpecTurn == InitTurn /\ [][NextTurn]_vars

\* the turn with servers that name tools as the built-in tools are named
InitShadow == InitWith(ShadowConfig, NoFile, "openai")

SpecShadow == InitShadow /\ [][NextTurn]_vars

\* turns between which the provider is changed
ProviderArgs == {OPENAI, ANTHROPIC, OLLAMA, <<"O", "l", "l", "a", "m", "a">>, NOPE}

ModelArgs == {"gpt-4o", "claude-opus-4-6", "llama4", "my-model"}

InitSwitch ==
    \E p \in {"openai", "anthropic", "ollama"} : InitWith(TurnConfig, NoFile, p)

NextSwitch ==
    \/ SlashProvider(ProviderArgs)
    \/ SlashModel(ModelArgs)
    \/ UserMessageUpTo(MaxSwitchHistory)
    \/ ProviderPlain(PlainResponses)
    \/ DispatchExternal
    \/ AppendResults
    \/ TurnEnd

SpecSwitch == InitSwitch /\ [][NextSwitch]_vars

\* turns in which the tool manager is called, and the turns after them
InitCarry == \E file \in PrefsFiles : InitWith(TurnConfig, file, "openai")

NextCarry ==
    \/ UserMessageUpTo(MaxSwitchHistory)
    \/ ProviderPlain(TextResponses)
    \/ ProviderVaried(ManageCalls \o SearchCalls)
    \/ DispatchExternal
    \/ DispatchManageTools
    \/ AppendResults
    \/ TurnEnd

SpecCarry == InitCarry /\ [][NextCarry]_vars

\* the preferences: slash commands, the tool manager and turns of text
InitPrefs ==
    \E cfg \in {TurnConfig, SharedConfig}, file \in PrefsFiles :
        InitWith(cfg, file, "openai")

NextPrefs ==
    \/ SlashReload({servers})
    \/ SlashEnable({GH, <<"G", "M">>, FS, ALL})
    \/ SlashDisable({GH, <<"G", "M">>, FS, ALL, NOPE})
    \/ UserMessage
    \/ ProviderPlain(TextResponses)
    \/ ProviderVaried(ManageCalls)
    \/ DispatchExternal
    \/ DispatchManageTools
    \/ AppendResults
    \/ TurnEnd

SpecPrefs == InitPrefs /\ [][NextPrefs]_vars

\* the same, with a registry larger than the total ceiling
InitCeiling == InitWith(BigConfig, NoFile, "openai")

NextCeiling ==
    \/ SlashEnable({GH})
    \/ SlashDisable({GH})
    \/ UserMessage
    \/ ProviderPlain(TextResponses)
    \/ ProviderVaried(SubSeq(ManageCalls, 4, 5))
    \/ DispatchExternal
    \/ DispatchManageTools
    \/ AppendResults
    \/ TurnEnd

SpecCeiling == InitCeiling /\ [][NextCeiling]_vars

\* startup with registries larger than the total ceiling, and the turns
\* that follow it
InitStartup ==
    \E cfg \in {BigConfig, HugeConfig}, file \in StartupFiles,
       p \in {"openai", "anthropic"} :
        InitWith(cfg, file, p)

NextStartup ==
    \/ UserMessage
    \/ ProviderPlain(TextResponses)
    \/ TurnEnd

SpecStartup == InitStartup /\ [][NextStartup]_vars

\* the groups of the registries that startup and reloads build
InitGroups == \E cfg \in GroupConfigs : InitWith(cfg, NoFile, "openai")

NextGroups ==
    \/ SlashReload(GroupConfigs)
    \/ ExecuteTool

SpecGroups == InitGroups /\ [][NextGroups]_vars

\* a group larger than the group ceiling, and requests that name it
InitAuto ==
    \E cfg \in OverConfigs : InitWith(cfg, NoFile, "openai")

NextAuto ==
    \/ SlashReload({servers})
    \/ SlashEnable({GH, BIG})
    \/ SlashDisable({GH, BIG})
    \/ UserMessage
    \/ ProviderPlain(TextResponses)
    \/ ProviderVaried(LabelCalls)
    \/ DispatchExternal
    \/ DispatchManageTools
    \/ AppendResults
    \/ TurnEnd

SpecAuto == InitAuto /\ [][NextAuto]_vars

\* every operation that changes the preferences, from the startup that
\* disables a group larger than the group ceiling on
InitShape ==
    \E file \in ShapeFiles :
        InitWith(<<[name |-> COMPOSIO, tools |-> ManyTools(GH_UPPER, MAX_GROUP + 1)],
                   [name |-> FS, tools |-> <<Desc(READ)>>]>>, file, "openai")

NextShape ==
    \/ SlashEnable({GH, ALL})
    \/ SlashDisable({GH, FS, ALL})
    \/ UserMessage
    \/ ProviderPlain(TextResponses)
    \/ ProviderVaried(ShapeCalls)
    \/ DispatchExternal
    \/ DispatchManageTools
    \/ AppendResults
    \/ TurnEnd

SpecShape == InitShape /\ [][NextShape]_vars

\* searches of a registry with described tools, under several disabled sets
InitSearch ==
    \E file \in {NoFile} \cup {_save_tool_prefs(PrefsData(<<g>>, <<>>)) : g \in {GH, GM, FS}} :
        InitWith(SearchConfig, file, "openai")

NextSearch ==
    \/ UserMessage
    \/ ProviderPlain(TextResponses)
    \/ ProviderVaried(SearchCalls)
    \/ DispatchExternal
    \/ DispatchManageTools
    \/ AppendResults
    \/ TurnEnd

SpecSearch == InitSearch /\ [][NextSearch]_vars

\* one client and its server
InitStdio == InitWith(TurnConfig, NoFile, "openai")

NextStdio ==
    \/ Handshake
    \/ Request
    \/ ReadLine
    \/ ReadEof
    \/ ServerWrites
    \/ ServerClosesOutput
    \/ ServerExits

SpecStdio == InitStdio /\ [][NextStdio]_vars

\* the same with the spinner thread
NextThreads == NextStdio \/ Spin

SpecThreads == InitStdio /\ [][NextThreads]_vars

\* the same, the client not stopping while readline() can return
SpecStdioFair == SpecStdio /\ WF_vars(ReadLine) /\ WF_vars(ReadEof)

\* one HTTP client and its server
SpecHttp == InitStdio /\ [][HttpPost]_vars

\* one HTTP client and the bodies of its responses
SpecFraming == InitStdio /\ [][HttpFramed]_vars

\* one client from its construction to after its close(): the client of a
\* server is of one class, so that the steps of one class are taken alone
NextLifecycle ==
    \/ /\ http = HttpNew
       /\ (NextStdio \/ StdioClose)
    \/ /\ stdio = StdioSpawned
       /\ (HttpPost \/ HttpClose)

SpecLifecycle == InitStdio /\ [][NextLifecycle]_vars

\* a process that saves the preferences file while others start
InitDisk ==
    \E file \in {NoFile, _save_tool_prefs(PrefsData(<<GM>>, <<>>))} :
        InitWith(TurnConfig, file, "openai")

NextDisk ==
    \/ SaveOpens
    \/ SaveFlushes
    \/ SaveCloses
    \/ ProcessStarts

SpecDisk == InitDisk /\ [][NextDisk]_vars

Init == InitTurn

Next == NextTurn

Spec == SpecTurn


(***************************************************************************)
(* Properties.                                                             *)
(***************************************************************************)
\* the positions, in registration order, of the clients whose tool list
\* carries the name
Reporting(name) ==
    {i \in 1..Len(mcp_clients) :
        \E k \in 1..Len(list_tools(servers, mcp_clients[i])) :
            list_tools(servers, mcp_clients[i])[k].name = name}

\* C1: a call to a name that clients of the session report is dispatched to
\* the first registered of the clients that report it.
C1_FirstRegisteredWins ==
    (routed.client.gen = gen /\ Reporting(routed.name) # {})
        => routed.client =
              mcp_clients[CHOOSE i \in Reporting(routed.name) :
                              \A j \in Reporting(routed.name) : i <= j]

\* C2: after every registry build no two descriptors of the aggregated list
\* carry the same tool name.
C2_UniqueNames ==
    \A i, j \in 1..Len(all_tools) : all_tools[i].name = all_tools[j].name => i = j

\* _chat_turn is over: it returned, or an exception left it
LoopLeft == pc \in {"returned", "raised"}

\* the rounds of this turn that the history holds
RoundsAppended ==
    Cardinality({i \in (turn_base + 1)..Len(messages) : messages[i].role = "assistant"})

\* C3: a turn in which every response carried a tool call ends with exactly
\* MAX_TOOL_ROUNDS provider calls made, as many rounds appended and the
\* sentinel returned; there is never one provider call more.
C3_CeilingSentinel ==
    /\ provider_calls <= MAX_TOOL_ROUNDS
    /\ (LoopLeft /\ response.tool_calls # <<>>)
          => /\ pc = "returned"
             /\ reply = SENTINEL
             /\ provider_calls = MAX_TOOL_ROUNDS
             /\ RoundsAppended = MAX_TOOL_ROUNDS

\* C4: the loop is left in two ways only: a response without tool calls,
\* whose text is returned at once (nothing dispatched, nothing appended, no
\* further provider call), or the sentinel at the ceiling.
C4_TextOrSentinel ==
    LoopLeft
        => \/ /\ pc = "returned"
              /\ response.tool_calls = <<>>
              /\ reply = response.content
              /\ results = <<>>
              /\ Len(messages) = sent.history
              /\ provider_calls = round + 1
              /\ round < MAX_TOOL_ROUNDS
           \/ /\ pc = "returned"
              /\ reply = SENTINEL
              /\ round = MAX_TOOL_ROUNDS

\* a round's results have just joined the history; the next provider call
\* (or the sentinel) is next
RoundAppended == pc = "call" /\ round >= 1

\* the tool results at the end of the history, as [id, content]
HistoryResults ==
    IF provider = "anthropic"
    THEN LET m == messages[Len(messages)]
         IN  [i \in 1..Len(m.content) |->
                 [id |-> m.content[i].tool_use_id, content |-> m.content[i].content]]
    ELSE LET a == CHOOSE i \in 1..Len(messages) :
                      /\ messages[i].role = "assistant"
                      /\ \A j \in (i + 1)..Len(messages) : messages[j].role # "assistant"
         IN  [k \in 1..(Len(messages) - a) |->
                 [id |-> messages[a + k].tool_call_id, content |-> messages[a + k].content]]

\* C5: when the next provider call is due, the history holds one result per
\* tool call of the round, each with the id of its call, in the order of the
\* calls.
C5_OneResultPerCall ==
    RoundAppended
        => /\ Len(HistoryResults) = Len(response.tool_calls)
           /\ \A i \in 1..Len(response.tool_calls) :
                 HistoryResults[i].id = response.tool_calls[i].id

C5_Witness ==
    /\ RoundAppended
    /\ Len(response.tool_calls) = MaxCalls
    /\ response.tool_calls[1].id # response.tool_calls[2].id

\* C6: a round with n results adds to the history, for openai and ollama,
\* one assistant message and n tool messages, one per result with its id;
\* for anthropic one assistant message and one user message holding the n
\* tool_result entries.
C6_AppendShape ==
    RoundAppended
        => LET n == Len(results)
               b == sent.history
           IN  IF provider = "anthropic"
               THEN /\ Len(messages) = b + 2
                    /\ messages[b + 1].role = "assistant"
                    /\ messages[b + 2].role = "user"
                    /\ Len(messages[b + 2].content) = n
                    /\ \A i \in 1..n :
                          /\ messages[b + 2].content[i].type = "tool_result"
                          /\ messages[b + 2].content[i].tool_use_id = results[i].id
               ELSE /\ Len(messages) = b + n + 1
                    /\ messages[b + 1].role = "assistant"
                    /\ \A k \in 1..n :
                          /\ messages[b + 1 + k].role = "tool"
                          /\ messages[b + 1 + k].tool_call_id = results[k].id

C6_Witness ==
    /\ RoundAppended
    /\ provider = "anthropic"
    /\ Len(results) = MaxCalls
    /\ Len(messages) = sent.history + 2

C8_OnlyLiteralYes ==
    last_shell.prompted
        => IF /\ last_shell.answer_in.kind = "line"
              /\ last_shell.answer_in.text \in {<<"y">>, <<"y", "e", "s">>}
           THEN TRUE
           ELSE ~last_shell.started /\ last_shell.text = DECLINED

\* C8, amended: a process is started if and only if the input line, with the
\* surrounding blanks removed and in lower case, is y or yes; after any
\* other line, end of input or an interrupt the call returns the decline
\* result and starts no process.
C8_GatingNormalised ==
    last_shell.prompted
        => IF /\ last_shell.answer_in.kind = "line"
              /\ StrLower(StrStrip(last_shell.answer_in.text))
                    \in {<<"y">>, <<"y", "e", "s">>}
           THEN last_shell.started
           ELSE ~last_shell.started /\ last_shell.text = DECLINED

C8_Witness ==
    /\ last_shell.prompted
    /\ last_shell.answer_in.kind = "interrupt"
    /\ ~last_shell.started
    /\ pc \in {"dispatch", "append"}

C10_SameStateSameView ==
    (sent.made /\ sent.key = observed.key)
        => Range(sent.tools) = Range(observed.tools)

\* C11: every group that has more than MAX_GROUP tools when startup collects
\* the tools is in the saved disabled set and none of its tools is active
\* right after startup; and after a request to enable that names the group by
\* its label (/enable or the tool manager's enable) the label is out of the
\* saved disabled set and every tool of the group is active.
C11_AutoDisableOverride ==
    LET groups == _group_tools(all_tools, tool_map)
        disabled == DisabledOf(_load_tool_prefs(prefs_file))
        active == Range(ToolNames(chat_state.tools))
    IN  /\ gen = 0 /\ ~sent.made =>
              \A g \in OverCeiling(all_tools, tool_map) :
                  g \in disabled /\ Range(groups[g]) \cap active = {}
        /\ asked.op = "enable" =>
              /\ asked.label \notin disabled
              /\ Range(groups[asked.label]) \subseteq active

\* C12: of two tools with the same group status, one matched in its name by
\* the query terms that match the other in its description only scores at
\* least as high; of two tools matched alike, the one in a disabled group
\* scores strictly higher than the one in an enabled group; the result list
\* is taken from the scored tools, in order of non-increasing score, and has
\* at most 20 entries.
C12_SearchRanking ==
    LET sc == found.scored
        m == found.matches
    IN  /\ \A i, j \in 1..Len(sc) :
              /\ sc[i].off = sc[j].off /\ sc[i].in_name # {} /\ sc[j].in_name = {}
                   /\ sc[j].in_desc \subseteq sc[i].in_name
                 => sc[i].score >= sc[j].score
              /\ sc[i].off /\ ~sc[j].off /\ sc[i].in_name = sc[j].in_name
                   /\ sc[i].in_desc = sc[j].in_desc
                 => sc[i].score > sc[j].score
        /\ \A i \in 1..Len(m) : \E k \in 1..Len(sc) : sc[k] = m[i]
        /\ \A i \in 1..(Len(m) - 1) : m[i].score >= m[i + 1].score
        /\ Len(m) <= 20

\* a search of two words with more than 20 scored tools, among them a pair
\* matched in the name and in the description only, and a pair matched alike
\* in a disabled and in an enabled group; its result has joined the results
C12_Witness ==
    LET sc == found.scored
    IN  /\ pc = "append"
        /\ found.n = 2
        /\ Len(sc) > 20
        /\ Len(found.matches) = 20
        /\ \E i, j \in 1..Len(sc) :
              /\ sc[i].off = sc[j].off /\ sc[i].in_name # {} /\ sc[j].in_name = {}
              /\ sc[j].in_desc # {} /\ sc[j].in_desc \subseteq sc[i].in_name
        /\ \E i, j \in 1..Len(sc) :
              /\ sc[i].off /\ ~sc[j].off /\ sc[i].in_name = sc[j].in_name
              /\ sc[i].in_desc = sc[j].in_desc

\* C13: the request ids a client writes are strictly increasing; a _send
\* whose request was written ends by returning a line that is a JSON object
\* with the id of the request, or by returning the closed-connection error;
\* and every line read while waiting that is no JSON, or has no id or
\* another id, is dropped: the loop goes on, and no _send returns the line.
C13_PipeCorrelation ==
    LET written == stdio.written
        outcomes == stdio.outcomes
        reads == stdio.reads
    IN  /\ \A i, j \in 1..Len(written) : i < j => written[i].id < written[j].id
        /\ \A k \in 1..Len(outcomes) :
              (\E i \in 1..Len(written) : written[i].id = outcomes[k].id) =>
                  \/ /\ outcomes[k].kind = "response"
                     /\ outcomes[k].line.kind = "object"
                     /\ outcomes[k].line.id = outcomes[k].id
                  \/ outcomes[k].kind = "error"
        /\ \A k \in 1..Len(reads) :
              reads[k].line.kind # "object" \/ reads[k].line.id # reads[k].want =>
                  /\ reads[k].goes_on
                  /\ \A o \in 1..Len(outcomes) :
                        outcomes[o].kind = "response" =>
                            outcomes[o].line.serial # reads[k].line.serial

\* C17: every call on a process-pipe client returns in the end, with a
\* result or with an error value, also when the server stays alive and never
\* writes a line with the awaited id.
C17_BoundedWait == (stdio.call # NoCall) ~> (stdio.call = NoCall)

\* C20: when the handshake of a process-pipe client fails (the server closes
\* its output or exits before it replies, or replies with an error), the
\* constructor still returns, so that the client exists, and the client sends
\* no second initialize request.
C20_FailedHandshake ==
    LET outcomes == stdio.outcomes
        written == stdio.written
    IN  /\ outcomes # <<>>
        /\ outcomes[1].method = "initialize"
        /\ \/ outcomes[1].kind = "error"
           \/ outcomes[1].kind = "response" /\ outcomes[1].line.body = "error"
        => /\ stdio.phase = "ready"
           /\ \A k \in 2..Len(written) : written[k].method # "initialize"

\* C15: on one client no request is written before the call of the request
\* before it has ended, in every interleaving of the main loop and the
\* spinner thread; and while a call is in progress on a client, the lock of
\* that client is held.
C15_LockedCalls ==
    /\ \A i \in 1..(Len(stdio.written) - 1) :
          \E k \in 1..Len(stdio.outcomes) : stdio.outcomes[k].id = stdio.written[i].id
    /\ stdio.call # NoCall => stdio.lock = "held"

\* C15, amended: on one client no request is written before the call of the
\* request before it has ended, in every interleaving of the main loop and
\* the spinner thread: the main loop makes every call and is inside _send
\* until it ends, the spinner thread writes frames only.  No lock is held.
C15_SerialCalls ==
    /\ \A i \in 1..(Len(stdio.written) - 1) :
          \E k \in 1..Len(stdio.outcomes) : stdio.outcomes[k].id = stdio.written[i].id
    /\ stdio.call # NoCall =>
          /\ stdio.written # <<>>
          /\ stdio.written[Len(stdio.written)].id = stdio.call.id
          /\ \A k \in 1..Len(stdio.outcomes) : stdio.outcomes[k].id # stdio.call.id
    /\ stdio.lock = "none"

\* the third request of a client is in progress, a tool call, and the spinner
\* thread has written frames meanwhile
C15_Witness ==
    /\ Len(stdio.written) = 3
    /\ stdio.call.method = "tools/call"
    /\ stdio.reads # <<>>
    /\ spinner.running
    /\ spinner.frame > 1

\* C14: once a response to an HttpMCPClient has carried a session
\* identifier, every later request and notification of the client carries
\* the identifier the server returned last; and once set, the stored
\* identifier is never unset, also after a response without the header and
\* after a failed request.
C14_StickySession ==
    /\ \A k \in 1..Len(http.posts) :
          http.posts[k].returned # "" => http.posts[k].header = http.posts[k].returned
    /\ http.returned # "" => http.session_id # ""

\* C14, amended: the same for the responses the client receives without an
\* HTTP error status; an identifier carried by a response with an error
\* status is not stored.
C14_StickyReceived ==
    /\ \A k \in 1..Len(http.posts) :
          /\ http.posts[k].header = http.posts[k].received
          /\ \A j \in 1..(k - 1) :
                http.posts[j].header # "" => http.posts[k].header # ""
    /\ http.session_id = http.received

\* the server has returned a first and then another identifier, a request
\* has failed, a response has come without the header, and a request has
\* been made after that
C14_Witness ==
    /\ Len(http.posts) = 4
    /\ http.posts[1].reply = [kind |-> "ok", sid |-> "s1"]
    /\ http.posts[2].reply = [kind |-> "ok", sid |-> "s2"]
    /\ http.posts[3].reply.sid = ""
    /\ http.posts[4].header = "s2"

\* C16: the preferences file is replaced in one step, never written in
\* place, so that a process that starts and reads it at any point of a save
\* by another process loads the complete old or the complete new
\* preferences, never those of an empty or partial file.
C16_AtomicWrite ==
    disk.reader.starts > 0 =>
        disk.reader.saw = disk.reader.old \/ disk.reader.saw = disk.reader.new

\* a text that reports a failed call: the unknown-tool text, the text made
\* of a client's exception, or the dump of an error value
DescribesError(t) ==
    /\ t # <<>>
    /\ t[1].src[1] \in {"unknown_tool", "error_executing", "error_value"}

\* C18: _chat_turn does not raise; and when the calls of a round have been
\* made there is one result for each call, in order, with the id of its
\* call, and the text of a call that failed (a name no client owns, an error
\* value from the server or the transport, an exception of the client)
\* describes the error.
C18_ErrorsAreData ==
    /\ pc # "raised"
    /\ (pc = "dispatch" /\ Called \notin {LOCAL_SHELL, MANAGE_TOOLS}) =>
          \A k \in 1..Len(ExtOutcomes) :
             (ExtOutcomes[k].kind # "text" \/ Called \notin DOMAIN tool_map) =>
                DescribesError(execute_tool(tool_map, Called, Arguments,
                                            ExtOutcomes[k]).text)
    /\ pc = "append" =>
          /\ Len(results) = Len(response.tool_calls)
          /\ \A i \in 1..Len(results) :
                /\ results[i].id = response.tool_calls[i].id
                /\ response.tool_calls[i].function.name \notin DOMAIN tool_map =>
                      DescribesError(raw_results[i])

\* C19: whatever the argument payload of a tool call is, _chat_turn does
\* not raise: a payload that is no JSON gives the empty argument set, the
\* JSON of an object gives that object, and every call made so far in the
\* round has its result, so that the round goes on to its next call or to
\* the appending of its results.
C19_LenientArguments ==
    /\ pc # "raised"
    /\ pc \in {"dispatch", "append"} => Len(results) = tc_i - 1
    /\ pc = "dispatch" =>
          /\ Tc.function.arguments.kind = "invalid" =>
                Arguments = [kind |-> "dict", val |-> <<>>]
          /\ Tc.function.arguments.kind = "object" =>
                Arguments = [kind |-> "dict", val |-> Tc.function.arguments.val]

\* a server whose client could not be made or whose tool listing failed
Failed(sc) ==
    \/ Fault(sc) # "none"
    \/ \E k \in 1..Len(sc.tools) : ~IsDict(sc.tools[k])

\* C21: whatever servers are configured, no name of the routing map belongs
\* to the client of a server whose construction or tool listing failed, and
\* none of the tools such a server would list is registered; every tool of
\* every other server is registered and a call to it is routed to that
\* server's client; and the registry is built to its end, the built-in
\* tools included.
C21_StartupIsolation ==
    /\ \A i \in 1..Len(servers) :
          IF Failed(servers[i])
          THEN /\ \A n \in DOMAIN tool_map : tool_map[n].idx # i
               /\ \A k \in 1..Len(servers[i].tools) :
                     IsDict(servers[i].tools[k]) =>
                        servers[i].tools[k].name \notin Range(ToolNames(all_tools))
          ELSE \A k \in 1..Len(servers[i].tools) :
                  LET n == servers[i].tools[k].name
                  IN  /\ n \in Range(ToolNames(all_tools))
                      /\ n \in DOMAIN tool_map
                      /\ tool_map[n] = [name |-> servers[i].name, idx |-> i, gen |-> gen]
                      /\ (routed.name = n /\ routed.client.gen = gen) =>
                            routed.client = tool_map[n]
    /\ {LOCAL_SHELL, MANAGE_TOOLS} \subseteq DOMAIN tool_map
    /\ {LOCAL_SHELL, MANAGE_TOOLS} \subseteq Range(ToolNames(all_tools))

\* C22: once close() has been called on a client, of either class, no
\* request is sent to the server any more and every call made afterwards
\* ends with an error: it raises or returns an error value; and a second
\* close() changes nothing of that.
C22_ClosedIsTerminal ==
    /\ stdio.closed.n > 0 =>
          /\ Len(stdio.written) = stdio.closed.sent
          /\ \A k \in (stdio.closed.ended + 1)..Len(stdio.outcomes) :
                stdio.outcomes[k].kind \in {"raised", "error"}
          /\ stdio.call = NoCall
    /\ http.closed.n > 0 =>
          /\ Len(http.posts) = http.closed.sent

\* C23: the first message of a client is the initialize request; a client
\* that was constructed has sent the notification notifications/initialized
\* once, without an id, after the initialize call had ended and before any
\* other request; and no tools/list or tools/call request is sent before
\* the notification.
C23_HandshakeOrder ==
    /\ stdio.written # <<>> => stdio.written[1].method = "initialize"
    /\ Len(stdio.notified) <= 1
    /\ stdio.phase = "ready" => Len(stdio.notified) = 1
    /\ \A k \in 1..Len(stdio.notified) :
          /\ stdio.notified[k].id = 0
          /\ stdio.notified[k].sent = 1
          /\ stdio.notified[k].ended = 1
          /\ stdio.outcomes[1].method = "initialize"
    /\ \A k \in 1..Len(stdio.written) :
          stdio.written[k].method \in {"tools/list", "tools/call"} =>
             /\ stdio.notified # <<>>
             /\ k > stdio.notified[1].sent
    /\ \A k \in 1..Len(http.posts) :
          /\ http.posts[k].kind = "notification" <=> k = 2
          /\ http.posts[k].kind = "notification" => http.posts[k].id = 0
          /\ http.posts[k].kind = "request" => http.posts[k].id > 0
    /\ http.posts # <<>> => http.posts[1].id = 1

\* a client was constructed although the server answered the initialize
\* request with an error, and has sent a request after the notification
C23_Witness ==
    /\ stdio.phase = "ready"
    /\ stdio.outcomes[1].line.body = "error"
    /\ Len(stdio.written) >= 2
    /\ stdio.written[2].method = "tools/list"
    /\ Len(stdio.notified) = 1

\* a call of the tool manager that changes the preferences: enable or
\* disable with a group, enable_tools with names
ManageChanges ==
    /\ pc = "dispatch"
    /\ Called = MANAGE_TOOLS
    /\ Arguments.kind = "dict"
    /\ \/ /\ Get(Arguments.val, "action", "list") \in {"enable", "disable"}
          /\ Get(Arguments.val, "group", <<>>) # <<>>
       \/ /\ Get(Arguments.val, "action", "list") = "enable_tools"
          /\ Get(Arguments.val, "tools", <<>>) # <<>>

\* the active set under the preferences now saved
ActiveNow == _apply_filter(all_tools, tool_map, _load_tool_prefs(prefs_file))

\* C24: a call of the tool manager that enables or disables a group or
\* enables tools sets the refresh flag and leaves in chat_state the active
\* set under the preferences it saved; the flag stays set, and that set is
\* the active set under the saved preferences, until the next provider call
\* (or a reload); and a provider call made while the flag is set is given
\* that set, not the set the turn began with, and clears the flag.
C24_MidTurnRefresh ==
    /\ [](chat_state.needs_tool_refresh => chat_state.tools = ActiveNow)
    /\ [][ManageChanges => /\ chat_state'.needs_tool_refresh
                           /\ chat_state'.tools = ActiveNow']_vars
    /\ [][(chat_state.needs_tool_refresh /\ ~chat_state'.needs_tool_refresh)
             => \/ provider_calls' = provider_calls + 1
                \/ gen' = gen + 1]_vars
    /\ [][(chat_state.needs_tool_refresh /\ provider_calls' = provider_calls + 1)
             => /\ sent'.tools = ToolNames(ActiveNow)
                /\ turn_tools' = ActiveNow
                /\ ~chat_state'.needs_tool_refresh]_vars

\* the second provider call of a turn has been given another set than the
\* turn began with: the tool manager changed the preferences in the first
\* round
C24_Witness ==
    /\ provider_calls = 2
    /\ pc \in {"dispatch", "returned"}
    /\ sent.tools # ToolNames(tools)
    /\ sent.tools = ToolNames(ActiveNow)
    /\ sent.key # observed.key
    /\ ~chat_state.needs_tool_refresh

\* C25: after a reload (/reload, or /enable or /disable that changed the
\* preferences) the first provider call of a turn is given the tools that
\* the filter selects from the registry as loaded last, under the saved
\* preferences, cut to the total ceiling MAX_TOOLS.
C25_RecomputeOnChange ==
    (gen > 0 /\ provider_calls = 1 /\ pc \in {"dispatch", "returned"} /\ results = <<>>)
        => sent.tools = ToolNames(Truncate(ActiveNow))

\* C26: startup hands to the first turn the filtered list when it holds at
\* most MAX_TOOLS tools, and its first MAX_TOOLS tools, in the order of the
\* registry, when it holds more; the session then waits for its first
\* message, and the first provider call of the first turn is given those
\* tools.
C26_StartupCeiling ==
    LET filtered == filter_call.result
    IN  /\ ~observed.made =>
              /\ Len(filtered) > MAX_TOOLS =>
                    /\ Len(tools) = MAX_TOOLS
                    /\ \A i \in 1..MAX_TOOLS : tools[i] = filtered[i]
              /\ Len(filtered) <= MAX_TOOLS => tools = filtered
              /\ chat_state = [tools |-> tools, needs_tool_refresh |-> FALSE]
              /\ pc \in {"idle", "call"}
        /\ (observed.made /\ turn_base = 2) => observed.tools = ToolNames(tools)

\* the first provider call has been given MAX_TOOLS tools, fewer than the
\* filter kept, which are not the first MAX_TOOLS of the registry
C26_Witness ==
    /\ observed.made
    /\ turn_base = 2
    /\ Len(observed.tools) = MAX_TOOLS
    /\ Len(filter_call.result) > MAX_TOOLS
    /\ observed.tools # ToolNames(SubSeq(all_tools, 1, MAX_TOOLS))

\* every registered name is in the member list of its group and of no other
\* group, and the member lists hold registered names only
OneGroupEach(grp(_)) ==
    LET groups == _group_tools(all_tools, tool_map)
        names == Range(ToolNames(all_tools))
    IN  /\ \A n \in names :
              {g \in DOMAIN groups : n \in Range(groups[g])} = {grp(n)}
        /\ UNION {Range(groups[g]) : g \in DOMAIN groups} = names

\* C27: the group of a registered tool is its name for the two built-in
\* tools; else, when the client that owns it is the aggregator and the name
\* holds the separator, the part of the name before the first separator;
\* else the name of the client that owns it.  Every registered tool is in
\* one group, and the groups together hold every registered tool.
C27_GroupDerivation ==
    LET grp(n) == IF n \in {LOCAL_SHELL, MANAGE_TOOLS} THEN n
                  ELSE IF tool_map[n].name = COMPOSIO /\ \E i \in 1..Len(n) : n[i] = "_"
                  THEN SubSeq(n, 1, (CHOOSE i \in 1..Len(n) :
                                        n[i] = "_" /\ \A j \in 1..(i - 1) : n[j] # "_") - 1)
                  ELSE tool_map[n].name
    IN  /\ \A n \in Range(ToolNames(all_tools)) : _tool_group(n, tool_map) = grp(n)
        /\ OneGroupEach(grp)

\* C27, amended: the same, the part of the name before the first separator
\* being put in lower case.
C27_GroupLowered ==
    LET grp(n) == IF n \in {LOCAL_SHELL, MANAGE_TOOLS} THEN n
                  ELSE IF tool_map[n].name = COMPOSIO /\ \E i \in 1..Len(n) : n[i] = "_"
                  THEN StrLower(SubSeq(n, 1, (CHOOSE i \in 1..Len(n) :
                                        n[i] = "_" /\ \A j \in 1..(i - 1) : n[j] # "_") - 1))
                  ELSE tool_map[n].name
    IN  /\ \A n \in Range(ToolNames(all_tools)) : _tool_group(n, tool_map) = grp(n)
        /\ OneGroupEach(grp)

\* after a reload the aggregator owns a tool with a prefix in capitals and
\* one without a separator, and the registry holds the built-in tools
C27_Witness ==
    /\ gen > 0
    /\ GH_PR \in DOMAIN tool_map
    /\ tool_map[GH_PR].name = COMPOSIO
    /\ _tool_group(GH_PR, tool_map) = GH
    /\ READ \in DOMAIN tool_map
    /\ tool_map[READ].name = COMPOSIO
    /\ _tool_group(READ, tool_map) = COMPOSIO
    /\ _tool_group(LOCAL_SHELL, tool_map) = LOCAL_SHELL

CallIds(m) ==
    IF provider = "anthropic"
    THEN LET uses == SelectSeq(m.content, LAMBDA b : b.type = "tool_use")
         IN  [k \in 1..Len(uses) |-> uses[k].id]
    ELSE [k \in 1..Len(m.tool_calls) |-> m.tool_calls[k].id]

\* the messages a round starting at i adds after its assistant message
RoundSpan(i) == IF provider = "anthropic" THEN 1 ELSE Len(CallIds(messages[i]))

\* the round whose assistant message is at i is whole: every result is there,
\* one per call, with the id of its call
WholeRound(i) ==
    LET ids == CallIds(messages[i])
    IN  /\ i + RoundSpan(i) <= Len(messages)
        /\ IF provider = "anthropic"
           THEN LET u == messages[i + 1]
                IN  /\ u.role = "user"
                    /\ Len(u.content) = Len(ids)
                    /\ \A k \in 1..Len(ids) :
                          /\ u.content[k].type = "tool_result"
                          /\ u.content[k].tool_use_id = ids[k]
           ELSE \A k \in 1..Len(ids) :
                    /\ messages[i + k].role = "tool"
                    /\ messages[i + k].tool_call_id = ids[k]

\* the history of the turn under way is a sequence of whole rounds
WholeRounds ==
    /\ \A i \in (turn_base + 1)..Len(messages) :
          messages[i].role = "assistant" => WholeRound(i)
    /\ \A i \in (turn_base + 1)..Len(messages) :
          messages[i].role # "assistant"
             => \E j \in (turn_base + 1)..(i - 1) :
                   /\ messages[j].role = "assistant"
                   /\ i <= j + RoundSpan(j)

\* C28: while the results of a round are collected the history does not
\* change; at every provider call and whenever _chat_turn is left, by a
\* return or by an exception, the history holds of each round of the turn
\* either the assistant message with all its results or nothing.
C28_NoPartialRounds ==
    /\ [](pc \in {"call", "dispatch", "append", "returned", "raised"} => WholeRounds)
    /\ [](pc \in {"dispatch", "append", "raised"} => Len(messages) = sent.history)
    /\ [][pc = "dispatch" => messages' = messages]_vars

\* an exception left the turn in its second round, after one result of the
\* round was collected: the history holds the first round and no more
C28_Witness ==
    /\ pc = "raised"
    /\ round = 1
    /\ results # <<>>
    /\ RoundsAppended = 1
    /\ Len(messages) = sent.history

\* the lines of a body that start with "data: " and carry JSON
DataBearing(body) == {i \in 1..Len(body) : body[i].kind = "data_json"}

\* C30: a response with an event-stream content type yields the JSON of its
\* first data line that parses, whatever lines follow it, and an error
\* object when no data line parses; a response with another content type
\* yields its whole body parsed as JSON, and an error object when the body
\* is no JSON.
C30_ResponseFraming ==
    \A i \in 1..Len(http.results) :
        LET r == http.posts[i].reply
            out == http.results[i]
        IN  r.kind = "ok" =>
              IF \E k \in 1..Len(r.ctype) : r.ctype[k] = "text/event-stream"
              THEN IF DataBearing(r.body) = {}
                   THEN out.error
                   ELSE LET first == CHOOSE k \in DataBearing(r.body) :
                                        \A j \in DataBearing(r.body) : k <= j
                        IN  out = Json(r.body[first].val)
              ELSE IF \E k \in 1..Len(r.body) :
                         /\ r.body[k].kind = "json"
                         /\ \A j \in 1..Len(r.body) : j # k => r.body[j].kind = "blank"
                   THEN \E k \in 1..Len(r.body) : out = Json(r.body[k].val)
                   ELSE out.error

\* an event stream whose first data line is empty, whose second carries JSON
\* and whose third carries other JSON: the second was returned
C30_Witness ==
    /\ Len(http.results) = 1
    /\ IsEventStream(http.posts[1].reply.ctype)
    /\ Len(http.posts[1].reply.body) = 3
    /\ http.posts[1].reply.body[1].kind = "data_empty"
    /\ http.posts[1].reply.body[2] = BodyLine("data_json", "v1")
    /\ http.posts[1].reply.body[3] = BodyLine("data_json", "v2")
    /\ http.results[1] = Json("v1")

\* the tool manager is about to act on enable_tools with a list of names
EnablingTools ==
    /\ pc = "dispatch"
    /\ Called = MANAGE_TOOLS
    /\ Arguments.kind = "dict"
    /\ Get(Arguments.val, "action", "list") = "enable_tools"
    /\ Get(Arguments.val, "tools", <<>>) # <<>>

Registered == Range(ToolNames(all_tools))

\* C31: enable_tools with a list of names leaves every listed name that is
\* the name of a registered tool in the saved picked set and in the active
\* set of the shared state, whether or not its group is disabled; it adds no
\* name to the picked set that is not the name of a registered tool; it
\* leaves the disabled groups as they were.
C31_SelectiveActivation ==
    [][EnablingTools =>
          LET listed == Range(Get(Arguments.val, "tools", <<>>))
              before == _load_tool_prefs(prefs_file)
              after == _load_tool_prefs(prefs_file')
          IN  /\ \A n \in listed \cap Registered :
                    /\ n \in PickedOf(after)
                    /\ n \in Range(ToolNames(chat_state'.tools))
              /\ PickedOf(after) \ PickedOf(before) \subseteq Registered
              /\ DisabledOf(after) = DisabledOf(before)]_vars

\* enable_tools has just named gmail_send, whose group is disabled, and a
\* name no tool has: the first is picked and active, the second is not picked
C31_Witness ==
    /\ pc \in {"dispatch", "append"}
    /\ tc_i >= 2
    /\ response.tool_calls[tc_i - 1].function.name = MANAGE_TOOLS
    /\ response.tool_calls[tc_i - 1].function.arguments.kind = "object"
    /\ Get(response.tool_calls[tc_i - 1].function.arguments.val, "action", "list")
          = "enable_tools"
    /\ NOPE \in Range(Get(response.tool_calls[tc_i - 1].function.arguments.val,
                          "tools", <<>>))
    /\ chat_state.needs_tool_refresh
    /\ _tool_group(GM_SEND, tool_map) \in DisabledOf(_load_tool_prefs(prefs_file))
    /\ GM_SEND \in PickedOf(_load_tool_prefs(prefs_file))
    /\ GM_SEND \in Range(ToolNames(chat_state.tools))
    /\ NOPE \notin PickedOf(_load_tool_prefs(prefs_file))

\* a list of strings in rising order, no string twice
Sorted(l) == \A i, j \in 1..Len(l) : i < j => StrLess(l[i], l[j])

\* C32: at every point of a session the disabled groups and the picked
\* tools of the preferences file are each a sorted list without duplicates,
\* and the file holds the preferences the session computed last.
C32_PreferencesShape ==
    /\ Sorted(Get(_load_tool_prefs(prefs_file), "disabled_groups", <<>>))
    /\ Sorted(Get(_load_tool_prefs(prefs_file), "picked_tools", <<>>))
    /\ _load_tool_prefs(prefs_file) = filter_call.prefs

\* the tool manager has added two tools of the large group, named out of
\* order and one twice, to the picked tool there was; two groups are
\* disabled, and a command has reloaded the tools
C32_Witness ==
    /\ gen >= 1
    /\ Len(Get(_load_tool_prefs(prefs_file), "disabled_groups", <<>>)) = 2
    /\ Len(Get(_load_tool_prefs(prefs_file), "picked_tools", <<>>)) = 3


\* C33: a call named local_shell or manage_tools is never routed to a client
\* of the registry, also when a server registered a tool of that name: the
\* built-in tool answers it; a call of any other name is routed to the client
\* the routing map holds for it, or to none.
C33_PseudoToolPrecedence ==
    /\ routed.name \notin {LOCAL_SHELL, MANAGE_TOOLS}
    /\ routed.client \in
         {NoClient} \cup {tool_map[n] : n \in DOMAIN tool_map \cap {routed.name}}
    /\ \A n \in DOMAIN tool_map \cap {LOCAL_SHELL} :
         tool_map[n] = _local_shell_client
    /\ \A n \in DOMAIN tool_map \cap {MANAGE_TOOLS} :
         tool_map[n] = _manage_tools_client

\* a server registered a tool named local_shell, and the built-in shell has
\* answered a call of that name
C33_Witness ==
    /\ Cardinality({i \in DOMAIN all_tools : all_tools[i].name = LOCAL_SHELL}) = 2
    /\ last_shell.started
    /\ pc = "append"

\* C34: every provider call, in every round of every turn, is given at most
\* MAX_TOOLS tools, also after /reload, /enable, /disable and a change made
\* by the tool manager.
C34_CeilingEveryRound ==
    sent.made => Len(sent.tools) <= MAX_TOOLS

\* C35: when the preferences disable neither the group local_shell nor the
\* group manage_tools, the tools startup hands to the first turn hold both
\* built-in tools, however many tools the servers report.
C35_PseudoToolsOffered ==
    (gen = 0 /\ DisabledOf(_load_tool_prefs(prefs_file)) \cap {LOCAL_SHELL, MANAGE_TOOLS} = {})
        => {LOCAL_SHELL, MANAGE_TOOLS} \subseteq Range(ToolNames(tools))

\* a message in the shape of the OpenAI API: an assistant message that holds
\* tool_calls, a message of role tool
OpenAIShaped(m) == m.role = "tool" \/ "tool_calls" \in DOMAIN m

\* a message in the shape of the Anthropic API: its content is a list of blocks
AnthropicShaped(m) == \E k \in 1..Len(m.content) : "type" \in DOMAIN m.content[k]

\* C36: at every provider call every message of the history that holds tool
\* calls or tool results has the shape of the provider called, also when the
\* provider was changed with /provider or /model between two turns.
C36_HistoryShape ==
    (sent.made /\ pc \in {"dispatch", "returned"})
        => \A i \in 1..sent.history :
              IF provider = "anthropic" THEN ~OpenAIShaped(messages[i])
              ELSE ~AnthropicShaped(messages[i])

\* C37: once a turn is over, by the return of a reply or of the sentinel of
\* the round ceiling, the last message of the history is the assistant
\* message that holds the reply; the history never holds two user messages
\* of text in a row.
C37_TurnClosure ==
    /\ (pc = "idle" /\ Len(messages) > 1)
          => messages[Len(messages)] = [role |-> "assistant", content |-> reply]
    /\ \A i \in 1..(Len(messages) - 1) :
          ~ /\ messages[i].role = "user"
            /\ messages[i + 1].role = "user"
            /\ ~AnthropicShaped(messages[i])
            /\ ~AnthropicShaped(messages[i + 1])

\* the clients of a lifecycle log on which op was made
ClientsOf(log, op) == {log[i].client : i \in {j \in 1..Len(log) : log[j].op = op}}

PickedNow == PickedOf(_load_tool_prefs(prefs_file))
DisabledNow == DisabledOf(_load_tool_prefs(prefs_file))

Managing(actions) ==
    /\ pc = "dispatch"
    /\ Called = MANAGE_TOOLS
    /\ Arguments.kind = "dict"
    /\ Get(Arguments.val, "action", "list") \in actions

\* the request names what the action needs: a group, or tools
Effective ==
    IF Get(Arguments.val, "action", "list") = "enable_tools"
    THEN Get(Arguments.val, "tools", <<>>) # <<>>
    ELSE Get(Arguments.val, "group", <<>>) # <<>>

\* C40: enable, disable and enable_tools of the tool manager leave in the
\* shared state the tools the filter selects from the registry under the
\* preferences just saved, and the refresh flag set; list and search leave
\* the saved preferences and the shared state as they were; when the turn
\* is over the loop takes its tools from the shared state, and the next turn
\* begins with them.
C40_SharedStateAgrees ==
    /\ [][(Managing({"enable", "disable", "enable_tools"}) /\ Effective) =>
            chat_state' =
                [tools |-> _apply_filter(all_tools, tool_map,
                                         _load_tool_prefs(prefs_file')),
                 needs_tool_refresh |-> TRUE]]_vars
    /\ [][Managing({"list", "search"}) =>
            /\ prefs_file' = prefs_file
            /\ chat_state' = chat_state
            /\ tools' = tools]_vars
    /\ [][(pc = "returned" /\ pc' = "idle") => tools' = chat_state.tools]_vars
    /\ [][(pc = "idle" /\ pc' = "call") => turn_tools' = chat_state.tools]_vars
    /\ [](pc = "idle" => tools = chat_state.tools)

\* the tool manager changed the active tools in the first turn, and the
\* first provider call of the second turn was given the tools of the shared
\* state, which are not those the session began with
C40_Witness ==
    /\ pc = "returned"
    /\ provider_calls = 1
    /\ turn_base >= 5
    /\ sent.tools = ToolNames(chat_state.tools)
    /\ sent.tools # observed.tools
    /\ chat_state.tools = filter_call.result
====
